---- MODULE Spec2Model ----
(***************************************************************************)
(* para-ssg: the wiki-link engine, the backlink indexer and the build      *)
(* pipeline (generate_site) of the static site generator.                  *)
(*                                                                         *)
(* Text is a sequence of one-character strings; a path is the sequence of  *)
(* its components (each a text), as std::path::Path::components gives them *)
(* on a Unix build.  Byte offsets are 0-based and half-open as in the code.*)
(***************************************************************************)
EXTENDS Integers, Sequences, FiniteSets, TLC

\* Option<T>: None is the empty tuple, Some(x) the one-element tuple.
None == << >>
Some(x) == << x >>
IsSome(o) == o # << >>
Unwrap(o) == o[1]

(* ------------------------------------------------------------------ *)
(* Characters and strings (std::string::String, ASCII subset)          *)
(* ------------------------------------------------------------------ *)

\* The printable ASCII characters in code order, Ascii[i] has code 31 + i (the
\* grave accent, code 96, is written GRAVE).
Ascii ==
  << " ", "!", "\"", "#", "$", "%", "&", "'", "(", ")", "*", "+", ",", "-", ".", "/",
     "0", "1", "2", "3", "4", "5", "6", "7", "8", "9", ":", ";", "<", "=", ">", "?",
     "@", "A", "B", "C", "D", "E", "F", "G", "H", "I", "J", "K", "L", "M", "N", "O",
     "P", "Q", "R", "S", "T", "U", "V", "W", "X", "Y", "Z", "[", "\\", "]", "^", "_",
     "GRAVE", "a", "b", "c", "d", "e", "f", "g", "h", "i", "j", "k", "l", "m", "n", "o",
     "p", "q", "r", "s", "t", "u", "v", "w", "x", "y", "z", "{", "|", "}", "~" >>

\* The byte value of a character (u8 of an ASCII char).
Code(c) ==
  CASE c = "\t" -> 9
    [] c = "\n" -> 10
    [] c = "\r" -> 13
    [] OTHER -> 31 + (CHOOSE i \in 1..Len(Ascii) : Ascii[i] = c)

\* char::is_whitespace on the ASCII subset.
IsWhitespace(c) == c \in {" ", "\t", "\n", "\r"}

\* char::to_lowercase on the ASCII subset: 'A'..'Z' (65..90) map to 'a'..'z'.
ToLowerChar(c) ==
  IF Code(c) >= 65 /\ Code(c) <= 90 THEN Ascii[Code(c) + 32 - 31] ELSE c

\* str::to_lowercase
to_lowercase(s) == [i \in 1..Len(s) |-> ToLowerChar(s[i])]

\* str::replace(from: char, to: &str)
RECURSIVE replace_char(_, _, _)
replace_char(s, from, to) ==
  IF s = << >> THEN << >>
  ELSE (IF Head(s) = from THEN to ELSE << Head(s) >>) \o replace_char(Tail(s), from, to)

\* str::split_whitespace: the maximal runs of non-whitespace characters.
RECURSIVE SplitWs(_, _, _)
SplitWs(s, i, cur) ==
  IF i > Len(s) THEN (IF cur = << >> THEN << >> ELSE << cur >>)
  ELSE IF IsWhitespace(s[i])
       THEN (IF cur = << >> THEN << >> ELSE << cur >>) \o SplitWs(s, i + 1, << >>)
       ELSE SplitWs(s, i + 1, Append(cur, s[i]))

split_whitespace(s) == SplitWs(s, 1, << >>)

\* [&str]::join(sep)
RECURSIVE join(_, _)
join(words, sep) ==
  IF words = << >> THEN << >>
  ELSE IF Len(words) = 1 THEN words[1]
  ELSE words[1] \o sep \o join(Tail(words), sep)

\* str::split(sep: char): the pieces between the separators (empty pieces kept);
\* SplitOn gives the pieces of s from position i on.
RECURSIVE SplitOn(_, _, _)
SplitOn(s, sep, i) ==
  IF \E j \in i..Len(s) : s[j] = sep
  THEN LET next == CHOOSE j \in i..Len(s) : s[j] = sep /\ \A k \in i..(j - 1) : s[k] # sep
       IN << SubSeq(s, i, next - 1) >> \o SplitOn(s, sep, next + 1)
  ELSE << SubSeq(s, i, Len(s)) >>

split(s, sep) == SplitOn(s, sep, 1)

\* str::trim
RECURSIVE trim_start(_)
trim_start(s) ==
  IF s # << >> /\ IsWhitespace(Head(s)) THEN trim_start(Tail(s)) ELSE s

RECURSIVE trim_end(_)
trim_end(s) ==
  IF s # << >> /\ IsWhitespace(s[Len(s)]) THEN trim_end(SubSeq(s, 1, Len(s) - 1)) ELSE s

trim(s) == trim_end(trim_start(s))

\* str::starts_with
starts_with(s, p) == Len(s) >= Len(p) /\ SubSeq(s, 1, Len(p)) = p

\* Whether p occurs in s at the 0-based offset i.
OccursAt(s, p, i) == i + Len(p) <= Len(s) /\ SubSeq(s, i + 1, i + Len(p)) = p

\* str::find: Some(the 0-based offset of the first occurrence), or None.
find(s, p) ==
  IF \E i \in 0..Len(s) : OccursAt(s, p, i)
  THEN Some(CHOOSE i \in 0..Len(s) :
              OccursAt(s, p, i) /\ \A j \in 0..(i - 1) : ~OccursAt(s, p, j))
  ELSE None

\* str::contains
contains(s, p) == IsSome(find(s, p))

\* Ord for String: byte-wise lexicographic order (a <= b).
RECURSIVE StrLeq(_, _)
StrLeq(a, b) ==
  IF a = << >> THEN TRUE
  ELSE IF b = << >> THEN FALSE
  ELSE IF Code(Head(a)) # Code(Head(b)) THEN Code(Head(a)) < Code(Head(b))
  ELSE StrLeq(Tail(a), Tail(b))

(* ------------------------------------------------------------------ *)
(* Paths (std::path::Path / PathBuf)                                   *)
(* ------------------------------------------------------------------ *)

DotDot == << ".", "." >>

\* Path::file_name: the last component, None for an empty path or "..".
file_name(path) ==
  IF path = << >> \/ path[Len(path)] = DotDot THEN None ELSE Some(path[Len(path)])

\* The 1-based position of the last '.' of a file name, 0 when there is none.
LastDot(name) ==
  IF \E i \in 1..Len(name) : name[i] = "."
  THEN CHOOSE i \in 1..Len(name) : name[i] = "." /\ \A j \in (i + 1)..Len(name) : name[j] # "."
  ELSE 0

\* Path::file_stem: the file name up to its last '.'; the whole name when it has
\* no '.' or only a leading one.
file_stem(path) ==
  IF file_name(path) = None THEN None
  ELSE LET name == Unwrap(file_name(path)) IN
       IF LastDot(name) <= 1 THEN Some(name)
       ELSE Some(SubSeq(name, 1, LastDot(name) - 1))

\* Path::extension: the part of the file name after its last '.'; None when the
\* name has no '.' or only a leading one.
extension(path) ==
  IF file_name(path) = None THEN None
  ELSE LET name == Unwrap(file_name(path)) IN
       IF LastDot(name) <= 1 THEN None
       ELSE Some(SubSeq(name, LastDot(name) + 1, Len(name)))

\* PathBuf::set_extension: the stem, followed by '.' and ext when ext is not empty.
set_extension(path, ext) ==
  IF file_stem(path) = None THEN path
  ELSE SubSeq(path, 1, Len(path) - 1)
       \o << Unwrap(file_stem(path)) \o (IF ext = << >> THEN << >> ELSE << "." >> \o ext) >>

\* Path::parent of a relative path: every component but the last.
parent(path) == IF path = << >> THEN << >> ELSE SubSeq(path, 1, Len(path) - 1)

\* A path component that holds a byte sequence that is not valid UTF-8 is written
\* with the pseudo-character NONUTF8; OsStr::to_str gives None for it.
NonUtf8 == "NONUTF8"
IsUtf8(component) == \A i \in 1..Len(component) : component[i] # NonUtf8

\* Path::to_str on Unix: the components joined by the separator '/', None when
\* some component is not valid UTF-8.
to_str(path) ==
  IF \A i \in 1..Len(path) : IsUtf8(path[i]) THEN Some(join(path, << "/" >>)) ELSE None

\* Result<T>: <<"Ok", value>> or <<"Err", message>>.
Ok(v) == << "Ok", v >>
Err(e) == << "Err", e >>
IsOk(r) == r[1] = "Ok"

(* ------------------------------------------------------------------ *)
(* parser/wiki_links.rs                                                *)
(* ------------------------------------------------------------------ *)

\* The character classes of WIKI_LINK_RE: [^\[\]|] and [^\[\]].
TargetChar(c) == c \notin {"[", "]", "|"}
DisplayChar(c) == c \notin {"[", "]"}

\* The end offset of the maximal run of target (display) characters from offset i.
RECURSIVE RunTarget(_, _)
RunTarget(s, i) == IF i < Len(s) /\ TargetChar(s[i + 1]) THEN RunTarget(s, i + 1) ELSE i

RECURSIVE RunDisplay(_, _)
RunDisplay(s, i) == IF i < Len(s) /\ DisplayChar(s[i + 1]) THEN RunDisplay(s, i + 1) ELSE i

\* WikiLink
WikiLink(full_match, target, display, start, end) ==
  [full_match |-> full_match, target |-> target, display |-> display,
   start |-> start, end |-> end]

\* The match of WIKI_LINK_RE that starts at offset i, if there is one:
\* "[[" target+ ( "|" display+ )? "]]", both runs greedy.
MatchAt(s, i) ==
  IF ~OccursAt(s, << "[", "[" >>, i) THEN None
  ELSE LET te == RunTarget(s, i + 2)
           de == RunDisplay(s, te + 1)
       IN IF te = i + 2 THEN None
          ELSE IF OccursAt(s, << "|" >>, te) /\ de > te + 1 /\ OccursAt(s, << "]", "]" >>, de)
          THEN Some(WikiLink(SubSeq(s, i + 1, de + 2), trim(SubSeq(s, i + 3, te)),
                             Some(trim(SubSeq(s, te + 2, de))), i, de + 2))
          ELSE IF OccursAt(s, << "]", "]" >>, te)
          THEN Some(WikiLink(SubSeq(s, i + 1, te + 2), trim(SubSeq(s, i + 3, te)),
                             None, i, te + 2))
          ELSE None

\* captures_iter: the leftmost non-overlapping matches, in order; ScanLinks
\* gives the matches from offset i on.
RECURSIVE ScanLinks(_, _)
ScanLinks(s, i) ==
  IF \E j \in i..(Len(s) - 1) : IsSome(MatchAt(s, j))
  THEN LET first == CHOOSE j \in i..(Len(s) - 1) :
                      IsSome(MatchAt(s, j)) /\ \A k \in i..(j - 1) : MatchAt(s, k) = None
       IN << Unwrap(MatchAt(s, first)) >> \o ScanLinks(s, Unwrap(MatchAt(s, first)).end)
  ELSE << >>

parse_wiki_links(content) == ScanLinks(content, 0)

\* A variant of the normalization that collapses the whitespace before it turns
\* hyphens and underscores into spaces.
NormalizeSeparatorsLast(s) ==
  replace_char(replace_char(join(split_whitespace(to_lowercase(s)), << " " >>),
                            "-", << " " >>), "_", << " " >>)

normalize_for_lookup(s) ==
  join(split_whitespace(
         replace_char(replace_char(to_lowercase(s), "-", << " " >>), "_", << " " >>)),
       << " " >>)

\* HashMap::insert: the key maps to the new value, whatever it mapped to.
HashMapInsert(map, key, value) ==
  [k \in DOMAIN map \cup {key} |-> IF k = key THEN value ELSE map[k]]

\* HashMap::entry(key).or_insert_with: an existing mapping is kept.
EntryOrInsert(map, key, value) ==
  IF key \in DOMAIN map THEN map ELSE HashMapInsert(map, key, value)

\* HashMap::get
HashMapGet(map, key) == IF key \in DOMAIN map THEN Some(map[key]) ELSE None

\* Variants of the insertions, used to see that the lookup properties tell them
\* from the code's: a title insertion that keeps an existing mapping, and a stem
\* insertion that overwrites one.
InsertTitleIfAbsent(lookup, key, path) == EntryOrInsert(lookup, key, path)
InsertStemOverwrite(lookup, key, path) == HashMapInsert(lookup, key, path)

\* The three insertions build_document_lookup makes for one document.
InsertTitle(lookup, key, path) == HashMapInsert(lookup, key, path)
InsertStem(lookup, key, path) == EntryOrInsert(lookup, key, path)
InsertPath(lookup, key, path) == EntryOrInsert(lookup, key, path)

\* The body of the loop of build_document_lookup for the pair (path, title).
LookupAddDocument(lookup, path, title) ==
  LET by_title == InsertTitle(lookup, normalize_for_lookup(title), path)
      by_stem ==
        IF IsSome(file_stem(path)) /\ IsUtf8(Unwrap(file_stem(path)))
        THEN InsertStem(by_title, normalize_for_lookup(Unwrap(file_stem(path))), path)
        ELSE by_title
      path_str == to_str(set_extension(path, << >>))
  IN IF IsSome(path_str)
     THEN InsertPath(by_stem, normalize_for_lookup(Unwrap(path_str)), path)
     ELSE by_stem

RECURSIVE LookupFold(_, _)
LookupFold(lookup, pairs) ==
  IF pairs = << >> THEN lookup
  ELSE LookupFold(LookupAddDocument(lookup, pairs[1][1], pairs[1][2]), Tail(pairs))

\* documents: a sequence of <<output path, title>> pairs.
build_document_lookup(documents) == LookupFold(<< >>, documents)

\* ResolvedLink
ResolvedLink(wiki_link, resolved_path) ==
  [wiki_link |-> wiki_link, resolved_path |-> resolved_path,
   is_broken |-> (resolved_path = None)]

\* A variant of the closure that looks the raw target up, not the normalized one.
ResolveOneRaw(wiki_link, document_lookup) ==
  ResolvedLink(wiki_link, HashMapGet(document_lookup, wiki_link.target))

\* The closure of resolve_wiki_links for one link.
ResolveOne(wiki_link, document_lookup) ==
  ResolvedLink(wiki_link, HashMapGet(document_lookup, normalize_for_lookup(wiki_link.target)))

resolve_wiki_links(wiki_links, document_lookup) ==
  [i \in 1..Len(wiki_links) |-> ResolveOne(wiki_links[i], document_lookup)]

html_escape(s) ==
  replace_char(
    replace_char(
      replace_char(
        replace_char(
          replace_char(s, "&", << "&", "a", "m", "p", ";" >>),
          "<", << "&", "l", "t", ";" >>),
        ">", << "&", "g", "t", ";" >>),
      "\"", << "&", "q", "u", "o", "t", ";" >>),
    "'", << "&", "#", "3", "9", ";" >>)

\* The number of leading components two paths share.
RECURSIVE CommonPrefixLen(_, _)
CommonPrefixLen(a, b) ==
  IF a # << >> /\ b # << >> /\ Head(a) = Head(b)
  THEN 1 + CommonPrefixLen(Tail(a), Tail(b))
  ELSE 0

\* The PathBuf calculate_relative_path builds: one ".." for each component of the
\* source directory after the common prefix, then the rest of the target.
RelativeComponents(from, to) ==
  LET from_dir == parent(from)
      common_prefix_len == CommonPrefixLen(from_dir, to)
  IN [i \in 1..(Len(from_dir) - common_prefix_len) |-> DotDot]
     \o SubSeq(to, common_prefix_len + 1, Len(to))

calculate_relative_path(from, to) ==
  IF IsSome(to_str(RelativeComponents(from, to)))
  THEN Ok(replace_char(Unwrap(to_str(RelativeComponents(from, to))), "\\", << "/" >>))
  ELSE Err("Invalid path")

AnchorOpen == << "<", "a", " ", "h", "r", "e", "f", "=", "\"" >>
AnchorMid ==
  << "\"", " ", "c", "l", "a", "s", "s", "=", "\"", "w", "i", "k", "i", "-",
     "l", "i", "n", "k", "\"", ">" >>
AnchorClose == << "<", "/", "a", ">" >>
BrokenOpen ==
  << "<", "s", "p", "a", "n", " ", "c", "l", "a", "s", "s", "=", "\"", "w", "i", "k", "i",
     "-", "l", "i", "n", "k", " ", "b", "r", "o", "k", "e", "n", "\"", " ",
     "t", "i", "t", "l", "e", "=", "\"",
     "L", "i", "n", "k", " ", "t", "a", "r", "g", "e", "t", " ", "n", "o", "t", " ",
     "f", "o", "u", "n", "d", ":", " " >>
BrokenMid == << "\"", ">" >>
BrokenClose == << "<", "/", "s", "p", "a", "n", ">" >>

\* wiki_link.display.as_ref().unwrap_or(&wiki_link.target)
DisplayText(wiki_link) ==
  IF IsSome(wiki_link.display) THEN Unwrap(wiki_link.display) ELSE wiki_link.target

\* A variant of the replacement whose broken-link span shows the normalized
\* target.
ReplacementNormalized(resolved_link, current_doc_path) ==
  IF IsSome(resolved_link.resolved_path)
  THEN LET relative_path ==
             calculate_relative_path(current_doc_path, Unwrap(resolved_link.resolved_path))
       IN IF IsOk(relative_path)
          THEN Ok(AnchorOpen \o html_escape(relative_path[2]) \o AnchorMid
                  \o html_escape(DisplayText(resolved_link.wiki_link)) \o AnchorClose)
          ELSE relative_path
  ELSE Ok(BrokenOpen \o html_escape(normalize_for_lookup(resolved_link.wiki_link.target))
          \o BrokenMid
          \o html_escape(normalize_for_lookup(DisplayText(resolved_link.wiki_link)))
          \o BrokenClose)

\* The text that replaces one link: an anchor for a resolved link (an error when
\* the relative path cannot be computed), a span for a broken one.
Replacement(resolved_link, current_doc_path) ==
  IF IsSome(resolved_link.resolved_path)
  THEN LET relative_path ==
             calculate_relative_path(current_doc_path, Unwrap(resolved_link.resolved_path))
       IN IF IsOk(relative_path)
          THEN Ok(AnchorOpen \o html_escape(relative_path[2]) \o AnchorMid
                  \o html_escape(DisplayText(resolved_link.wiki_link)) \o AnchorClose)
          ELSE relative_path
  ELSE Ok(BrokenOpen \o html_escape(resolved_link.wiki_link.target) \o BrokenMid
          \o html_escape(DisplayText(resolved_link.wiki_link)) \o BrokenClose)

\* sort_by_key(|link| Reverse(link.wiki_link.start)): a stable sort, so a link goes
\* after the links already placed whose start is not smaller.
RECURSIVE InsertByStartDesc(_, _)
InsertByStartDesc(sorted, link) ==
  IF sorted # << >> /\ Head(sorted).wiki_link.start >= link.wiki_link.start
  THEN << Head(sorted) >> \o InsertByStartDesc(Tail(sorted), link)
  ELSE << link >> \o sorted

RECURSIVE SortFoldLinks(_, _)
SortFoldLinks(sorted, rest) ==
  IF rest = << >> THEN sorted
  ELSE SortFoldLinks(InsertByStartDesc(sorted, Head(rest)), Tail(rest))

\* A variant of the sort that leaves the links in the order given.
SortLinksKeepingOrder(links) == links

SortLinksByStartDesc(links) == SortFoldLinks(<< >>, links)

\* String::replace_range(start..end, with)
replace_range(s, start, end, with) ==
  SubSeq(s, 1, start) \o with \o SubSeq(s, end + 1, Len(s))

\* The loop of replace_wiki_links_with_html over the sorted links; the first
\* failing replacement ends it with that error.
RECURSIVE ReplaceLoop(_, _, _)
ReplaceLoop(result, sorted_links, current_doc_path) ==
  IF sorted_links = << >> THEN Ok(result)
  ELSE LET replacement == Replacement(Head(sorted_links), current_doc_path)
           wiki_link == Head(sorted_links).wiki_link
       IN IF IsOk(replacement)
          THEN ReplaceLoop(replace_range(result, wiki_link.start, wiki_link.end, replacement[2]),
                           Tail(sorted_links), current_doc_path)
          ELSE replacement

replace_wiki_links_with_html(content, resolved_links, current_doc_path) ==
  ReplaceLoop(content, SortLinksByStartDesc(resolved_links), current_doc_path)

get_broken_links(resolved_links) ==
  LET broken == SelectSeq(resolved_links, LAMBDA l : l.is_broken)
  IN [i \in 1..Len(broken) |-> broken[i].wiki_link]

(* ------------------------------------------------------------------ *)
(* parser/frontmatter.rs, parser/document.rs, parser/mod.rs            *)
(* ------------------------------------------------------------------ *)

LF == << "\n" >>
CRLF == << "\r", "\n" >>
Dashes == << "-", "-", "-" >>

\* DocumentMetadata::default(): the fields the pipeline reads.
DefaultMetadata == [title |-> None, date |-> None, modified |-> None, created |-> None]

\* One line of the metadata block: Some(<<key, value>>) for "key: value" (or
\* "key:"), None for a line that is no mapping entry of a flat block: a line
\* with a tab, without a key, or whose value holds a further ": " or ends in ':'.
YamlEntry(line) ==
  LET colon == find(line \o << " " >>, << ":", " " >>)
  IN IF contains(line, << "\t" >>) \/ colon = None \/ Unwrap(colon) = 0 THEN None
     ELSE LET key == SubSeq(line, 1, Unwrap(colon))
              value == trim(SubSeq(line, Unwrap(colon) + 2, Len(line)))
          IN IF contains(value \o << " " >>, << ":", " " >>) \/ IsWhitespace(key[1])
             THEN None
             ELSE Some(<< key, value >>)

\* The keys of the fields of type Option<DateTime<Utc>> (document.rs 47-54).
DateKeys ==
  { << "d", "a", "t", "e" >>, << "m", "o", "d", "i", "f", "i", "e", "d" >>,
    << "c", "r", "e", "a", "t", "e", "d" >> }

\* The values the deserialisation of a DateTime<Utc> accepts, as far as modelled:
\* timestamps of the form 2024-01-02T03:04:05Z.
IsDateTime(value) ==
  /\ Len(value) = 20
  /\ \A i \in {1, 2, 3, 4, 6, 7, 9, 10, 12, 13, 15, 16, 18, 19} :
       value[i] \in { "0", "1", "2", "3", "4", "5", "6", "7", "8", "9" }
  /\ value[5] = "-" /\ value[8] = "-" /\ value[11] = "T"
  /\ value[14] = ":" /\ value[17] = ":" /\ value[20] = "Z"

\* The record with one recognised key set; an Option<DateTime<Utc>> given an
\* empty value (a YAML null) stays None.
WithField(metadata, key, value) ==
  CASE key = << "t", "i", "t", "l", "e" >> -> [metadata EXCEPT !.title = Some(value)]
    [] key \in DateKeys /\ value = << >> -> metadata
    [] key = << "d", "a", "t", "e" >> -> [metadata EXCEPT !.date = Some(value)]
    [] key = << "m", "o", "d", "i", "f", "i", "e", "d" >> -> [metadata EXCEPT !.modified = Some(value)]
    [] key = << "c", "r", "e", "a", "t", "e", "d" >> -> [metadata EXCEPT !.created = Some(value)]
    [] OTHER -> metadata

RECURSIVE YamlFold(_, _)
YamlFold(metadata, yaml_lines) ==
  IF yaml_lines = << >> THEN Ok(metadata)
  ELSE IF trim(Head(yaml_lines)) = << >> THEN YamlFold(metadata, Tail(yaml_lines))
  ELSE IF YamlEntry(Head(yaml_lines)) = None
       THEN Err("Failed to parse YAML frontmatter")
  ELSE IF /\ Unwrap(YamlEntry(Head(yaml_lines)))[1] \in DateKeys
          /\ Unwrap(YamlEntry(Head(yaml_lines)))[2] # << >>
          /\ ~IsDateTime(Unwrap(YamlEntry(Head(yaml_lines)))[2])
       THEN Err("Failed to parse YAML frontmatter")
  ELSE YamlFold(WithField(metadata, Unwrap(YamlEntry(Head(yaml_lines)))[1],
                          Unwrap(YamlEntry(Head(yaml_lines)))[2]),
                Tail(yaml_lines))

\* serde_yaml::from_str::<DocumentMetadata> on flat "key: value" blocks.
YamlFromStr(yaml_content) == YamlFold(DefaultMetadata, split(yaml_content, "\n"))

\* The split of the text after the opening delimiter into the metadata block and
\* the body: << yaml_content, remaining_content >>, or None when no closing
\* delimiter is found.
SplitFrontmatter(content_after_first) ==
  IF starts_with(content_after_first, Dashes \o LF)
  THEN Some(<< << >>, SubSeq(content_after_first, 5, Len(content_after_first)) >>)
  ELSE IF starts_with(content_after_first, Dashes \o CRLF)
  THEN Some(<< << >>, SubSeq(content_after_first, 6, Len(content_after_first)) >>)
  ELSE IF IsSome(find(content_after_first, LF \o Dashes \o LF))
  THEN LET end_pos == Unwrap(find(content_after_first, LF \o Dashes \o LF))
       IN Some(<< SubSeq(content_after_first, 1, end_pos),
                  SubSeq(content_after_first, end_pos + 6, Len(content_after_first)) >>)
  ELSE IF IsSome(find(content_after_first, CRLF \o Dashes \o CRLF))
  THEN LET end_pos == Unwrap(find(content_after_first, CRLF \o Dashes \o CRLF))
       IN Some(<< SubSeq(content_after_first, 1, end_pos),
                  SubSeq(content_after_first, end_pos + 8, Len(content_after_first)) >>)
  ELSE None

\* A variant of the frontmatter stage that drops leading whitespace of a text
\* without frontmatter and rejects every other text.
ParseFrontmatterTrimmingBody(content) ==
  IF ~starts_with(content, Dashes \o LF) /\ ~starts_with(content, Dashes \o CRLF)
  THEN Ok(<< DefaultMetadata, trim_start(content) >>)
  ELSE Err("Frontmatter starting delimiter found but no closing delimiter")

\* Ok(<< metadata, body >>) or Err.
parse_frontmatter(content) ==
  IF ~starts_with(content, Dashes \o LF) /\ ~starts_with(content, Dashes \o CRLF)
  THEN Ok(<< DefaultMetadata, content >>)
  ELSE LET content_after_first ==
             IF starts_with(content, Dashes \o LF)
             THEN SubSeq(content, 5, Len(content))
             ELSE SubSeq(content, 6, Len(content))
           parts == SplitFrontmatter(content_after_first)
       IN IF parts = None
          THEN Err("Frontmatter starting delimiter found but no closing delimiter")
          ELSE IF IsOk(YamlFromStr(Unwrap(parts)[1]))
          THEN Ok(<< YamlFromStr(Unwrap(parts)[1])[2], Unwrap(parts)[2] >>)
          ELSE YamlFromStr(Unwrap(parts)[1])

\* pulldown-cmark's rendering is not part of this program: the rendered HTML is
\* kept as the application of the renderer to its input.
markdown_to_html(content) == << "markdown_to_html", content >>

\* Document::new
Document_new(source_path, relative_path, category) ==
  [source_path |-> source_path,
   relative_path |-> relative_path,
   output_path |-> set_extension(relative_path, << "h", "t", "m", "l" >>),
   metadata |-> DefaultMetadata,
   raw_content |-> << >>,
   html_content |-> << >>,
   category |-> category,
   wiki_links |-> << >>,
   backlinks |-> << >>]

Untitled == << "U", "n", "t", "i", "t", "l", "e", "d" >>

\* Document::title
title(doc) ==
  IF IsSome(doc.metadata.title) THEN Unwrap(doc.metadata.title)
  ELSE IF IsSome(file_stem(doc.relative_path)) /\ IsUtf8(Unwrap(file_stem(doc.relative_path)))
  THEN Unwrap(file_stem(doc.relative_path))
  ELSE Untitled

\* A variant of parse_document that takes the modification time of the file
\* whenever the frontmatter gives no "modified", whatever else it gives.
ParseDocumentStampingUnlessModified(source_path, relative_path, category, content, mtime) ==
  IF content = None THEN Err("Failed to read file")
  ELSE LET parsed == parse_frontmatter(Unwrap(content)) IN
       IF ~IsOk(parsed) THEN parsed
       ELSE LET metadata ==
                  IF parsed[2][1].modified = None
                  THEN [parsed[2][1] EXCEPT !.modified = Some(mtime)]
                  ELSE parsed[2][1]
            IN Ok([Document_new(source_path, relative_path, category) EXCEPT
                     !.metadata = metadata,
                     !.raw_content = parsed[2][2],
                     !.html_content = markdown_to_html(parsed[2][2])])

\* parse_document on a file whose text is `content` (None: the file cannot be read
\* as UTF-8 text) and whose modification time is mtime.
parse_document(source_path, relative_path, category, content, mtime) ==
  IF content = None THEN Err("Failed to read file")
  ELSE LET parsed == parse_frontmatter(Unwrap(content)) IN
       IF ~IsOk(parsed) THEN parsed
       ELSE LET metadata ==
                  IF parsed[2][1].date = None /\ parsed[2][1].modified = None
                     /\ parsed[2][1].created = None
                  THEN [parsed[2][1] EXCEPT !.modified = Some(mtime)]
                  ELSE parsed[2][1]
            IN Ok([Document_new(source_path, relative_path, category) EXCEPT
                     !.metadata = metadata,
                     !.raw_content = parsed[2][2],
                     !.html_content = markdown_to_html(parsed[2][2])])

\* Ok(<< html, resolved_links >>) or the error of the rewriting.
markdown_to_html_with_wiki_links(content, current_doc_path, document_lookup) ==
  LET resolved_links == resolve_wiki_links(parse_wiki_links(content), document_lookup)
      content_with_html_links ==
        replace_wiki_links_with_html(content, resolved_links, current_doc_path)
  IN IF IsOk(content_with_html_links)
     THEN Ok(<< markdown_to_html(content_with_html_links[2]), resolved_links >>)
     ELSE content_with_html_links

(* ------------------------------------------------------------------ *)
(* generator/backlinks.rs                                              *)
(* ------------------------------------------------------------------ *)

\* The number of bytes kept before and after the link in its context.
ContextRadius == 50

Min(a, b) == IF a <= b THEN a ELSE b

\* str::lines: the pieces between line feeds, each without its trailing carriage
\* return; an empty last piece is no line.
lines(s) ==
  LET pieces == split(s, "\n")
      strip(i) ==
        IF i < Len(pieces) /\ pieces[i] # << >> /\ pieces[i][Len(pieces[i])] = "\r"
        THEN SubSeq(pieces[i], 1, Len(pieces[i]) - 1)
        ELSE pieces[i]
      n == IF pieces[Len(pieces)] = << >> THEN Len(pieces) - 1 ELSE Len(pieces)
  IN [i \in 1..n |-> strip(i)]

Ellipsis == << ".", ".", "." >>

\* A character that takes two bytes in UTF-8 is written as its two bytes, the
\* pseudo-characters LEAD and CONT; every other element of a text is one byte.
LeadByte == "LEAD"
ContByte == "CONT"

\* A variant of the test of a byte offset that every offset passes.
IsCharBoundaryAlways(s, index) == TRUE

\* str::is_char_boundary: the offset is the start or the end of the text, or the
\* byte at it is not a continuation byte.
is_char_boundary(s, index) ==
  \/ index = 0
  \/ index = Len(s)
  \/ index < Len(s) /\ s[index + 1] # ContByte

\* What the slice &s[start..end] panics with when an offset is inside a
\* character.
SlicePanic == << "Panic", "byte index is not a char boundary" >>

\* Some(context), None when the link text is not in the content, SlicePanic when
\* an end of the window is inside a character.
extract_link_context(content, link_text) ==
  IF IsSome(find(content, link_text))
  THEN LET link_pos == Unwrap(find(content, link_text))
           context_start == IF link_pos >= ContextRadius THEN link_pos - ContextRadius ELSE 0
           context_end == Min(link_pos + Len(link_text) + ContextRadius, Len(content))
           context ==
             trim(join(lines(SubSeq(content, context_start + 1, context_end)), << " " >>))
       IN IF is_char_boundary(content, context_start) /\ is_char_boundary(content, context_end)
          THEN Some((IF context_start > 0 THEN Ellipsis ELSE << >>) \o context
                    \o (IF context_end < Len(content) THEN Ellipsis ELSE << >>))
          ELSE SlicePanic
  ELSE None

BacklinkReference(source_path, source_title, link_context) ==
  [source_path |-> source_path, source_title |-> source_title,
   link_context |-> link_context]

\* A variant of the push that replaces the vector of the key by the new entry.
IndexPushReplace(index, key, backlink) ==
  [k \in DOMAIN index \cup {key} |-> IF k = key THEN << backlink >> ELSE index[k]]

\* entry(key).or_insert_with(Vec::new).push(backlink)
IndexPush(index, key, backlink) ==
  [k \in DOMAIN index \cup {key} |->
     IF k = key
     THEN (IF key \in DOMAIN index THEN Append(index[key], backlink) ELSE << backlink >>)
     ELSE index[k]]

\* The inner loop of build_backlink_index: the links of one document, in order.
RECURSIVE IndexLinks(_, _, _)
IndexLinks(index, doc, links) ==
  IF links = << >> THEN index
  ELSE IF ~Head(links).is_broken
  THEN IndexLinks(
         IndexPush(index, Unwrap(Head(links).resolved_path),
                   BacklinkReference(doc.relative_path, title(doc),
                                     extract_link_context(doc.raw_content,
                                                          Head(links).wiki_link.full_match))),
         doc, Tail(links))
  ELSE IndexLinks(index, doc, Tail(links))

RECURSIVE IndexDocuments(_, _)
IndexDocuments(index, docs) ==
  IF docs = << >> THEN index
  ELSE IndexDocuments(IndexLinks(index, Head(docs), Head(docs).wiki_links), Tail(docs))

build_backlink_index(documents) == IndexDocuments(<< >>, documents)

\* build_backlink_index panics when extract_link_context does for a link that
\* is not broken.
BacklinkIndexPanics(documents) ==
  \E i \in 1..Len(documents) :
    \E n \in 1..Len(documents[i].wiki_links) :
      /\ ~documents[i].wiki_links[n].is_broken
      /\ extract_link_context(documents[i].raw_content,
                              documents[i].wiki_links[n].wiki_link.full_match) = SlicePanic

\* sort_by(|a, b| a.source_title.cmp(&b.source_title)): a stable sort, so an entry
\* goes after the entries already placed whose title is not greater.
RECURSIVE InsertByTitle(_, _)
InsertByTitle(sorted, backlink) ==
  IF sorted # << >> /\ StrLeq(Head(sorted).source_title, backlink.source_title)
  THEN << Head(sorted) >> \o InsertByTitle(Tail(sorted), backlink)
  ELSE << backlink >> \o sorted

RECURSIVE SortFoldBacklinks(_, _)
SortFoldBacklinks(sorted, rest) ==
  IF rest = << >> THEN sorted
  ELSE SortFoldBacklinks(InsertByTitle(sorted, Head(rest)), Tail(rest))

\* A variant of the sort that leaves the vector in index order.
BacklinksUnsorted(backlinks) == backlinks

SortBacklinksByTitle(backlinks) == SortFoldBacklinks(<< >>, backlinks)

\* A variant of the loop body that fetches the entries by the source-relative
\* path of the document, which is never a key of the index.
ApplyBacklinksByRelativePath(doc, backlink_index) ==
  IF IsSome(HashMapGet(backlink_index, doc.relative_path))
  THEN [doc EXCEPT !.backlinks =
          SortBacklinksByTitle(Unwrap(HashMapGet(backlink_index, doc.relative_path)))]
  ELSE doc

\* The body of the loop of apply_backlinks_to_documents for one document.
ApplyBacklinks(doc, backlink_index) ==
  IF IsSome(HashMapGet(backlink_index, doc.output_path))
  THEN [doc EXCEPT !.backlinks =
          SortBacklinksByTitle(Unwrap(HashMapGet(backlink_index, doc.output_path)))]
  ELSE doc

apply_backlinks_to_documents(documents, backlink_index) ==
  [i \in 1..Len(documents) |-> ApplyBacklinks(documents[i], backlink_index)]

(* ------------------------------------------------------------------ *)
(* utils/para.rs, utils/fs.rs                                          *)
\* Variants of the counts and of the index-page test: every link counted as
\* valid, and only index.md recognised.
ValidCountAll(wiki_links) == Len(wiki_links)

IsIndexPageIndexOnly(path) ==
  IF IsSome(file_name(path)) /\ IsUtf8(Unwrap(file_name(path)))
  THEN Unwrap(file_name(path)) = << "i", "n", "d", "e", "x", ".", "m", "d" >>
  ELSE FALSE

\* is_index_page (backlinks.rs 131-136)
is_index_page(path) ==
  IF IsSome(file_name(path)) /\ IsUtf8(Unwrap(file_name(path)))
  THEN Unwrap(file_name(path)) \in { << "i", "n", "d", "e", "x", ".", "m", "d" >>,
                                     << "_", "i", "n", "d", "e", "x", ".", "m", "d" >>,
                                     << "R", "E", "A", "D", "M", "E", ".", "m", "d" >> }
  ELSE FALSE

\* The two filters of calculate_link_statistics (backlinks.rs 107-108).
ValidCount(wiki_links) == Len(SelectSeq(wiki_links, LAMBDA l : ~l.is_broken))
BrokenCount(wiki_links) == Len(SelectSeq(wiki_links, LAMBDA l : l.is_broken))

\* The body of the loop of calculate_link_statistics for one document.
StatsAdd(stats, doc) ==
  [stats EXCEPT
     !.total_links = @ + Len(doc.wiki_links),
     !.valid_links = @ + ValidCount(doc.wiki_links),
     !.broken_links = @ + BrokenCount(doc.wiki_links),
     !.documents_with_backlinks = IF doc.backlinks # << >> THEN @ + 1 ELSE @,
     !.orphaned_documents =
        IF doc.backlinks = << >> /\ ~is_index_page(doc.relative_path)
        THEN Append(@, doc.relative_path) ELSE @]

RECURSIVE StatsFold(_, _)
StatsFold(stats, docs) ==
  IF docs = << >> THEN stats ELSE StatsFold(StatsAdd(stats, Head(docs)), Tail(docs))

calculate_link_statistics(documents) ==
  StatsFold([total_documents |-> Len(documents), total_links |-> 0, valid_links |-> 0,
             broken_links |-> 0, documents_with_backlinks |-> 0,
             orphaned_documents |-> << >>],
            documents)

(* ------------------------------------------------------------------ *)

PARA_PROJECTS == << "p", "r", "o", "j", "e", "c", "t", "s" >>
PARA_AREAS == << "a", "r", "e", "a", "s" >>
PARA_RESOURCES == << "r", "e", "s", "o", "u", "r", "c", "e", "s" >>
PARA_ARCHIVES == << "a", "r", "c", "h", "i", "v", "e", "s" >>
PARA_ROOT == << "r", "o", "o", "t" >>
PARA_CATEGORIES == {PARA_PROJECTS, PARA_AREAS, PARA_RESOURCES, PARA_ARCHIVES}

\* A variant of detect_para_category that looks at the directory the file is in
\* instead of the first component.
DetectParaCategoryByParent(path) ==
  IF Len(path) >= 2 /\ path[Len(path) - 1] \in PARA_CATEGORIES
  THEN path[Len(path) - 1]
  ELSE PARA_ROOT

detect_para_category(path) ==
  IF path # << >> /\ path[1] \in PARA_CATEGORIES THEN path[1] ELSE PARA_ROOT

(* ------------------------------------------------------------------ *)
(* The input directory                                                 *)
(* ------------------------------------------------------------------ *)

\* The most markdown files the input directory holds.
MaxDocs == 2

Md(stem) == stem \o << ".", "m", "d" >>

\* The relative paths of the markdown files: in the root, in a category
\* directory, two levels deep, with a backslash in the file name, and in a
\* directory whose name is not valid UTF-8.
PathRootA == << Md(<< "a" >>) >>
PathProjectsB == << PARA_PROJECTS, Md(<< "b" >>) >>
PathSubA == << PARA_PROJECTS, << "s", "u", "b" >>, Md(<< "a" >>) >>
PathBackslash == << Md(<< "a", "\\", "b" >>) >>
PathNonUtf8Dir == << << "d", NonUtf8 >>, Md(<< "c" >>) >>

TitleLine(t) == << "t", "i", "t", "l", "e", ":", " " >> \o t \o LF

\* The texts of the markdown files: without frontmatter; with the title "b";
\* with the title "A"; with a frontmatter block that is never closed.
TextPlain == << "[", "[", "a", "]", "]", " ", "[", "[", "B", "|", "c", "]", "]" >>
TextTitleB ==
  Dashes \o LF \o TitleLine(<< "b" >>) \o Dashes \o LF
  \o << "[", "[", "p", "r", "o", "j", "e", "c", "t", "s", "/", "b", "]", "]",
        "[", "[", "N", "&", "]", "]", " ", "[", "[", "a", "]", "]" >>
TextTitleA ==
  Dashes \o LF \o TitleLine(<< "A" >>) \o Dashes \o LF
  \o << "x", " ", "[", "[", "a", "\\", "b", "]", "]", "\n", "[", "[", "c", "]", "]" >>
TextUnclosed == Dashes \o LF \o TitleLine(<< "a" >>) \o << "[", "[", "a", "]", "]" >>

\* A timestamp of the given year, and a text whose frontmatter gives one date
\* field.
Timestamp(year) ==
  year \o << "-", "0", "1", "-", "0", "2", "T", "0", "3", ":", "0", "4", ":", "0", "5", "Z" >>
DatedText(key, value) ==
  Dashes \o LF \o key \o << ":", " " >> \o value \o LF \o Dashes \o LF
  \o << "[", "[", "a", "]", "]" >>

\* The modification time the file system reports for a file.
Mtime == << "m", "t", "i", "m", "e" >>

File(relative_path, content) ==
  [relative_path |-> relative_path, kind |-> "file", content |-> content]

\* A directory and a symbolic link of the input directory; DirEntry::file_type
\* does not follow links, so a link is neither a directory nor a file.
Dir(relative_path) == [relative_path |-> relative_path, kind |-> "dir", content |-> None]
Symlink(relative_path) ==
  [relative_path |-> relative_path, kind |-> "symlink", content |-> None]

\* The files the input directory may hold.
Files ==
  { File(PathRootA, Some(TextPlain)), File(PathRootA, Some(TextTitleB)),
    File(PathRootA, Some(TextUnclosed)),
    File(PathProjectsB, Some(TextPlain)), File(PathProjectsB, Some(TextTitleB)),
    File(PathProjectsB, Some(TextTitleA)), File(PathProjectsB, Some(TextUnclosed)),
    File(PathSubA, Some(TextTitleB)),
    File(PathBackslash, Some(TextPlain)),
    File(PathNonUtf8Dir, Some(TextPlain)) }

\* The listings of the input directory: up to MaxDocs markdown files with
\* pairwise distinct paths, in the order read_dir yields them.
Vaults ==
  { v \in UNION { [1..n -> Files] : n \in 0..MaxDocs } :
      \A i, j \in 1..Len(v) : i # j => v[i].relative_path # v[j].relative_path }

InputRoot == << << "i", "n" >> >>

\* A variant of create_output_directory that does not look at what is at the
\* path.
CreateOutputDirectoryUnchecked(is_file) == Ok("created")

\* create_output_directory (fs.rs 254-285): an error when the path exists and
\* is a file, otherwise the directory is created.
create_output_directory(is_file) ==
  IF is_file THEN Err("InvalidPath: exists and is a file") ELSE Ok("created")

\* DocumentInfo, as traverse_recursive records it for a markdown file.
DocumentInfo(file) ==
  [path |-> InputRoot \o file.relative_path,
   relative_path |-> file.relative_path,
   stem |-> Unwrap(file_stem(file.relative_path)),
   category |-> detect_para_category(file.relative_path)]

\* A variant of the test on a directory name that no name passes.
IsHiddenNever(name) == FALSE

\* The test of fs.rs 87-91 on a directory name.
IsHidden(name) == name # << >> /\ name[1] = "."

\* A variant of the test of fs.rs 97-98 that wants the file name to end in
\* ".md", which the name ".md" does.
IsMarkdownBySuffix(path) ==
  /\ IsSome(file_name(path))
  /\ LET name == Unwrap(file_name(path))
     IN Len(name) >= 3 /\ SubSeq(name, Len(name) - 2, Len(name)) = << ".", "m", "d" >>

\* The test of fs.rs 97-98 on the path of a regular file.
IsMarkdown(path) == extension(path) = Some(<< "m", "d" >>)

\* An entry is reached by the walk when none of the directories above it was
\* skipped (fs.rs 85-93: the walk does not descend into a hidden directory).
Reached(entry) ==
  \A k \in 1..(Len(entry.relative_path) - 1) : ~IsHidden(entry.relative_path[k])

\* traverse_recursive (fs.rs 57-136) over the entries in the order the walk
\* meets them: directories contribute nothing themselves, regular files with
\* the extension md are recorded, and a file stem that is not valid UTF-8 ends
\* the walk with an error.
RECURSIVE traverse_recursive(_, _)
traverse_recursive(entries, documents) ==
  IF entries = << >> THEN Ok(documents)
  ELSE LET entry == Head(entries)
           path == entry.relative_path
       IN IF ~Reached(entry) \/ (entry.kind = "dir" /\ IsHidden(path[Len(path)]))
          THEN traverse_recursive(Tail(entries), documents)
          ELSE IF entry.kind = "file" /\ IsMarkdown(path)
          THEN IF IsSome(file_stem(path)) /\ IsUtf8(Unwrap(file_stem(path)))
               THEN traverse_recursive(Tail(entries), Append(documents, DocumentInfo(entry)))
               ELSE Err("InvalidPath: Invalid file name")
          ELSE traverse_recursive(Tail(entries), documents)

traverse_directory(entries) == traverse_recursive(entries, << >>)

(* ------------------------------------------------------------------ *)
(* lib.rs: generate_site                                               *)
(* ------------------------------------------------------------------ *)

VARIABLES
  vault,               \* the entries under the input directory, in the order of the walk
  input_is_dir,        \* whether config.input_dir exists and is a directory
  output_is_file,      \* whether config.output_dir exists as a regular file
  stage,               \* the stage of the build
  result,              \* what generate_site returned (None while it runs)
  document_infos,      \* the discovered documents
  pending,             \* the items of the running parallel map not yet taken
  parse_results,       \* the collected results of the first parallel map
  processed,           \* the shared progress counter
  documents,           \* the documents carried forward
  parse_errors,
  lookup_map,
  resolve_results,     \* the collected results of the second parallel map
  broken_links_total,  \* the shared broken-link counter
  link_stats,          \* the LinkStatistics of the build (None until computed)
  output_created,      \* the build has created the output directory
  watch                \* the watch loop of main.rs (None when --watch is not given)

vars ==
  << vault, input_is_dir, output_is_file, stage, result, document_infos, pending,
     parse_results, processed, documents, parse_errors, lookup_map, resolve_results,
     broken_links_total, link_stats, output_created, watch >>

\* Before generate_site runs: an input path that is no directory holds no file.
Init ==
  /\ input_is_dir \in BOOLEAN
  /\ output_is_file \in BOOLEAN
  /\ vault \in (IF input_is_dir THEN Vaults ELSE {<< >>})
  /\ stage = "Discover"
  /\ result = None
  /\ document_infos = << >>
  /\ pending = {}
  /\ parse_results = << >>
  /\ processed = 0
  /\ documents = << >>
  /\ parse_errors = 0
  /\ lookup_map = << >>
  /\ resolve_results = << >>
  /\ broken_links_total = 0
  /\ link_stats = None
  /\ output_created = FALSE
  /\ watch = None

\* A variant of the collection that fills the slots in the order the items
\* complete.
CollectInCompletionOrder(results, i, r) ==
  [results EXCEPT ![CHOOSE k \in 1..Len(results) :
                      results[k] = None /\ \A j \in 1..(k - 1) : results[j] # None] = r]

\* Where collect() puts the result of item i of a parallel map over an indexed
\* collection: in slot i, whenever the item completes.
CollectInto(results, i, r) == [results EXCEPT ![i] = r]

\* The content of the file a DocumentInfo was recorded for, as the worker reads
\* it; a file removed since the traversal cannot be read.
ContentOf(i) ==
  IF \E k \in 1..Len(vault) :
       vault[k].kind = "file" /\ vault[k].relative_path = document_infos[i].relative_path
  THEN vault[CHOOSE k \in 1..Len(vault) :
         vault[k].kind = "file" /\ vault[k].relative_path = document_infos[i].relative_path].content
  ELSE None

\* A variant of the steps after the traversal that creates the output directory
\* before it looks at the number of documents.
AfterTraverseCreatingFirst(infos, is_file) ==
  LET created == create_output_directory(is_file)
  IN IF ~IsOk(created)
     THEN [ret |-> Some(created), created |-> FALSE]
     ELSE IF Len(infos) = 0
     THEN [ret |-> Some(Ok("empty")), created |-> TRUE]
     ELSE [ret |-> None, created |-> TRUE]

\* What generate_site does between the traversal and the first parallel map
\* (lib.rs 96-134): with no document it returns Ok(()) at once, otherwise it
\* creates the output directory and returns the error of that, if any. ret is
\* the value returned (None: the build goes on), created tells whether the
\* output directory was created.
AfterTraverse(infos, is_file) ==
  IF Len(infos) = 0
  THEN [ret |-> Some(Ok("empty")), created |-> FALSE]
  ELSE LET created == create_output_directory(is_file)
       IN IF IsOk(created)
          THEN [ret |-> None, created |-> TRUE]
          ELSE [ret |-> Some(created), created |-> FALSE]

\* config.validate, traverse_directory, the empty-input return and
\* create_output_directory (lib.rs 90-140).
Discover ==
  /\ stage = "Discover"
  /\ IF ~input_is_dir
     THEN /\ stage' = "Failed"
          /\ result' = Err("DirectoryNotFound")
          /\ UNCHANGED << document_infos, pending, parse_results, output_created >>
     ELSE IF ~IsOk(traverse_directory(vault))
     THEN /\ stage' = "Failed"
          /\ result' = traverse_directory(vault)
          /\ UNCHANGED << document_infos, pending, parse_results, output_created >>
     ELSE LET infos == traverse_directory(vault)[2]
              after == AfterTraverse(infos, output_is_file)
          IN /\ document_infos' = infos
             /\ output_created' = after.created
             /\ IF IsSome(after.ret)
                THEN /\ stage' = (IF IsOk(Unwrap(after.ret)) THEN "Done" ELSE "Failed")
                     /\ result' = Unwrap(after.ret)
                     /\ UNCHANGED << pending, parse_results >>
                ELSE /\ stage' = "ParseAll"
                     /\ result' = result
                     /\ pending' = 1..Len(infos)
                     /\ parse_results' = [i \in 1..Len(infos) |-> None]
  /\ processed' = 0
  /\ UNCHANGED << watch, vault, input_is_dir, output_is_file, link_stats, documents, parse_errors,
                  lookup_map, resolve_results, broken_links_total >>

\* A variant of the update of a counter that adds to the value the counter had
\* when the parallel map began, as a load taken then and a later store would.
FetchAddOnStaleLoad(counter, n) == n

\* AtomicUsize::fetch_add(n, SeqCst): the value of the counter after the update;
\* the value returned to the caller is the one before, so "fetch_add(1) + 1" is
\* the value after.
fetch_add(counter, n) == counter + n

\* One item of the first parallel map (lib.rs 142-173): parse the document,
\* count it, hand the result to collect().
ParseDoc(i) ==
  /\ stage = "ParseAll"
  /\ i \in pending
  /\ pending' = pending \ {i}
  /\ parse_results' =
       CollectInto(parse_results, i,
                   parse_document(document_infos[i].path, document_infos[i].relative_path,
                                  document_infos[i].category, ContentOf(i), Mtime))
  /\ processed' = fetch_add(processed, 1)
  /\ UNCHANGED << watch, vault, input_is_dir, output_is_file, link_stats, output_created, stage, result, document_infos,
                  documents, parse_errors, lookup_map, resolve_results,
                  broken_links_total >>

\* Variants of the loop over the results: one that gives up every document when
\* some result is an error, one that counts the failures as a flag.
ParsedDocumentsAllOrNothing(results) ==
  IF \E i \in 1..Len(results) : ~IsOk(results[i]) THEN << >>
  ELSE [i \in 1..Len(results) |-> results[i][2]]

CountParseErrorsAsFlag(results) ==
  IF \E i \in 1..Len(results) : ~IsOk(results[i]) THEN 1 ELSE 0

\* The documents of the results that are Ok, in order (lib.rs 183-200).
ParsedDocuments(results) ==
  LET ok == SelectSeq(results, LAMBDA r : IsOk(r)) IN [i \in 1..Len(ok) |-> ok[i][2]]

\* The number of results that are Err (lib.rs 201-208).
CountParseErrors(results) == Len(SelectSeq(results, LAMBDA r : ~IsOk(r)))

\* A variant of the step after the first map that goes straight to the second
\* map, with the lookup table left as it is.
CollectParsedSkippingLookup ==
  /\ stage = "ParseAll"
  /\ pending = {}
  /\ documents' = ParsedDocuments(parse_results)
  /\ parse_errors' = CountParseErrors(parse_results)
  /\ pending' = 1..Len(documents')
  /\ resolve_results' = [i \in 1..Len(documents') |-> None]
  /\ stage' = "ResolveLinksAll"
  /\ UNCHANGED << watch, vault, input_is_dir, output_is_file, link_stats, output_created, result, document_infos,
                  parse_results, processed, lookup_map, broken_links_total >>

\* The loop over parse_results once the parallel map has ended (lib.rs 179-223).
CollectParsed ==
  /\ stage = "ParseAll"
  /\ pending = {}
  /\ documents' = ParsedDocuments(parse_results)
  /\ parse_errors' = CountParseErrors(parse_results)
  /\ stage' = "BuildLookup"
  /\ UNCHANGED << watch, vault, input_is_dir, output_is_file, link_stats, output_created, result, document_infos, pending,
                  parse_results, processed, lookup_map, resolve_results,
                  broken_links_total >>

\* A variant of the pairs that leaves the last document out.
LookupPairsButLast(docs) ==
  [i \in 1..(Len(docs) - 1) |-> << docs[i].output_path, title(docs[i]) >>]

\* The pairs handed to build_document_lookup (lib.rs 227-230).
LookupPairs(docs) == [i \in 1..Len(docs) |-> << docs[i].output_path, title(docs[i]) >>]

\* lib.rs 227-242: the lookup table, then the counters and the second map set up.
BuildLookup ==
  /\ stage = "BuildLookup"
  /\ lookup_map' = build_document_lookup(LookupPairs(documents))
  /\ processed' = 0
  /\ broken_links_total' = 0
  /\ pending' = 1..Len(documents)
  /\ resolve_results' = [i \in 1..Len(documents) |-> None]
  /\ stage' = "ResolveLinksAll"
  /\ UNCHANGED << watch, vault, input_is_dir, output_is_file, link_stats, output_created, result, document_infos,
                  parse_results, documents, parse_errors >>

\* A variant of the document a worker of the second map returns that also keeps
\* the rewritten text as the raw content.
WithLinksRewritingRaw(doc, processed_links) ==
  [doc EXCEPT !.html_content = processed_links[1], !.wiki_links = processed_links[2],
              !.raw_content = processed_links[1][2]]

\* The document a worker of the second map returns (lib.rs 254-255).
WithLinks(doc, processed_links) ==
  [doc EXCEPT !.html_content = processed_links[1], !.wiki_links = processed_links[2]]

\* One item of the second parallel map (lib.rs 244-281); expect() panics on an
\* error of the rewriting and the panic ends the build.
ResolveDoc(i) ==
  /\ stage = "ResolveLinksAll"
  /\ i \in pending
  /\ LET processed_links ==
           markdown_to_html_with_wiki_links(documents[i].raw_content,
                                            documents[i].output_path, lookup_map)
     IN IF IsOk(processed_links)
        THEN /\ pending' = pending \ {i}
             /\ resolve_results' =
                  CollectInto(resolve_results, i, Some(WithLinks(documents[i], processed_links[2])))
             /\ broken_links_total' =
                  fetch_add(broken_links_total, Len(get_broken_links(processed_links[2][2])))
             /\ processed' = fetch_add(processed, 1)
             /\ UNCHANGED << stage, result >>
        ELSE /\ stage' = "Failed"
             /\ result' = << "Panic", "Wiki link processing failed" >>
             /\ UNCHANGED << pending, resolve_results, broken_links_total, processed >>
  /\ UNCHANGED << watch, vault, input_is_dir, output_is_file, link_stats, output_created, document_infos, parse_results,
                  documents, parse_errors, lookup_map >>

\* The end of the second map: documents = ... .collect() (lib.rs 244, 281-296).
CollectResolved ==
  /\ stage = "ResolveLinksAll"
  /\ pending = {}
  /\ documents' = [i \in 1..Len(resolve_results) |-> Unwrap(resolve_results[i])]
  /\ stage' = "IndexBacklinks"
  /\ UNCHANGED << watch, vault, input_is_dir, output_is_file, link_stats, output_created, result, document_infos, pending,
                  parse_results, processed, parse_errors, lookup_map, resolve_results,
                  broken_links_total >>

\* lib.rs 298-304 and the rendering that follows: the backlinks are indexed and
\* applied, the link statistics computed, and the build returns Ok; a panic of
\* build_backlink_index ends the build.
IndexBacklinks ==
  /\ stage = "IndexBacklinks"
  /\ IF BacklinkIndexPanics(documents)
     THEN /\ stage' = "Failed"
          /\ result' = SlicePanic
          /\ UNCHANGED << documents, link_stats >>
     ELSE /\ documents' =
               apply_backlinks_to_documents(documents, build_backlink_index(documents))
          /\ link_stats' = Some(calculate_link_statistics(documents'))
          /\ stage' = "Done"
          /\ result' = Ok("complete")
  /\ UNCHANGED << watch, vault, input_is_dir, output_is_file, output_created, document_infos,
                  pending, parse_results, processed, parse_errors, lookup_map,
                  resolve_results, broken_links_total >>

Next ==
  \/ Discover
  \/ \E i \in 1..MaxDocs : ParseDoc(i)
  \/ CollectParsed
  \/ BuildLookup
  \/ \E i \in 1..MaxDocs : ResolveDoc(i)
  \/ CollectResolved
  \/ IndexBacklinks

Spec == Init /\ [][Next]_vars

(* ------------------------------------------------------------------ *)
(* Builds of one document over a range of texts and names              *)
(* ------------------------------------------------------------------ *)

\* The pieces the texts are made of: the delimiter with and without a line end,
\* a line end of either kind, and a letter.
MaxTokens == 4
Tokens == { Dashes \o LF, Dashes \o CRLF, Dashes, << "a" >>, LF, CRLF }

\* The texts made of up to n pieces.
RECURSIVE TokenTexts(_)
TokenTexts(n) ==
  IF n = 0 THEN { << >> }
  ELSE LET shorter == TokenTexts(n - 1)
       IN shorter \cup { t \o k : t \in shorter, k \in Tokens }

\* The names and link targets: up to MaxKeyLen characters, letters of both cases,
\* hyphen, underscore, space and tab.
MaxKeyLen == 3
KeyChars == { "A", "b", "-", "_", " ", "\t" }
Keys == UNION { [1..n -> KeyChars] : n \in 1..MaxKeyLen }

\* A text that holds one link to k.
LinkTo(k) == << "[", "[" >> \o k \o << "]", "]" >>

\* An input directory with one document: a.md with one of the texts, or a file
\* named after a key that holds a link to the key.
TextVaults ==
  { << File(PathRootA, Some(t)) >> : t \in TokenTexts(MaxTokens) }
  \cup { << File(<< Md(k) >>, Some(LinkTo(k))) >> : k \in Keys }

InitTexts ==
  /\ input_is_dir = TRUE
  /\ output_is_file = FALSE
  /\ vault \in TextVaults
  /\ stage = "Discover"
  /\ result = None
  /\ document_infos = << >>
  /\ pending = {}
  /\ parse_results = << >>
  /\ processed = 0
  /\ documents = << >>
  /\ parse_errors = 0
  /\ lookup_map = << >>
  /\ resolve_results = << >>
  /\ broken_links_total = 0
  /\ link_stats = None
  /\ output_created = FALSE
  /\ watch = None

SpecTexts == InitTexts /\ [][Next]_vars

(* ------------------------------------------------------------------ *)
(* Builds over index pages and ordinary pages                          *)
(* ------------------------------------------------------------------ *)

\* Files with the names is_index_page knows, a name that differs from one of
\* them in case only, an index page in a category, and an ordinary page; their
\* texts link to each other and to documents that do not exist.
StatFiles ==
  { File(<< Md(<< "i", "n", "d", "e", "x" >>) >>, Some(LinkTo(<< "d" >>) \o LinkTo(<< "x" >>))),
    File(<< Md(<< "_", "i", "n", "d", "e", "x" >>) >>, Some(LinkTo(<< "d" >>))),
    File(<< Md(<< "R", "E", "A", "D", "M", "E" >>) >>, Some(<< "x" >>)),
    File(<< Md(<< "I", "n", "d", "e", "x" >>) >>, Some(LinkTo(<< "x" >>) \o LinkTo(<< "y" >>))),
    File(<< PARA_PROJECTS, Md(<< "i", "n", "d", "e", "x" >>) >>,
         Some(LinkTo(<< "r", "e", "a", "d", "m", "e" >>))),
    File(<< Md(<< "d" >>) >>,
         Some(<< "z" >> \o LinkTo(<< "i", "n", "d", "e", "x" >>) \o LinkTo(<< "d" >>)
              \o << " ", "&", " " >> \o LinkTo(<< "x" >>) \o << "." >>)) }

StatVaults ==
  { v \in UNION { [1..n -> StatFiles] : n \in 0..MaxDocs } :
      \A i, j \in 1..Len(v) : i # j => v[i].relative_path # v[j].relative_path }

InitStats ==
  /\ input_is_dir = TRUE
  /\ output_is_file = FALSE
  /\ vault \in StatVaults
  /\ stage = "Discover"
  /\ result = None
  /\ document_infos = << >>
  /\ pending = {}
  /\ parse_results = << >>
  /\ processed = 0
  /\ documents = << >>
  /\ parse_errors = 0
  /\ lookup_map = << >>
  /\ resolve_results = << >>
  /\ broken_links_total = 0
  /\ link_stats = None
  /\ output_created = FALSE
  /\ watch = None

SpecStats == InitStats /\ [][Next]_vars

(* ------------------------------------------------------------------ *)
(* Trees under the input directory                                     *)
(* ------------------------------------------------------------------ *)

\* What the input directory may hold, each with the directory it is in; the
\* frontmatters give a date, a created or a modified field, a date without a
\* value and a date that is no timestamp. There are markdown
\* files in the root, in each category directory, in a directory whose name
\* differs from a category in case, in another directory, in a hidden directory
\* and in a directory named like a markdown file; a hidden file with the
\* extension md; a file named ".md"; a text file; a link named like a markdown
\* file; a markdown file whose stem is not valid UTF-8; an empty directory.
TreeItems ==
  << << File(PathRootA, Some(TextPlain)) >>,
     << File(<< << ".", "b", ".", "m", "d" >> >>, Some(TextPlain)) >>,
     << File(<< << ".", "m", "d" >> >>, Some(TextPlain)) >>,
     << File(<< << "n", ".", "t", "x", "t" >> >>, Some(TextPlain)) >>,
     << Symlink(<< Md(<< "s" >>) >>) >>,
     << File(<< Md(<< NonUtf8 >>) >>, Some(TextPlain)) >>,
     << Dir(<< << ".", "h" >> >>), File(<< << ".", "h" >>, Md(<< "c" >>) >>, Some(TextPlain)) >>,
     << Dir(<< Md(<< "d" >>) >>), File(<< Md(<< "d" >>), Md(<< "c" >>) >>, Some(TextPlain)) >>,
     << Dir(<< PARA_PROJECTS >>), File(PathProjectsB, Some(TextTitleB)) >>,
     << Dir(<< PARA_AREAS >>),
        File(<< PARA_AREAS, Md(<< "B" >>) >>,
             Some(DatedText(<< "d", "a", "t", "e" >>, Timestamp(<< "2", "0", "2", "1" >>)))) >>,
     << Dir(<< PARA_RESOURCES >>),
        File(<< PARA_RESOURCES, Md(<< "c" >>) >>,
             Some(DatedText(<< "c", "r", "e", "a", "t", "e", "d" >>,
                            Timestamp(<< "2", "0", "2", "3" >>)))) >>,
     << Dir(<< PARA_ARCHIVES >>),
        File(<< PARA_ARCHIVES, Md(<< "a" >>) >>,
             Some(DatedText(<< "m", "o", "d", "i", "f", "i", "e", "d" >>,
                            Timestamp(<< "2", "0", "2", "2" >>)))) >>,
     << Dir(<< << "P", "r", "o", "j", "e", "c", "t", "s" >> >>),
        File(<< << "P", "r", "o", "j", "e", "c", "t", "s" >>, Md(<< "b" >>) >>,
             Some(DatedText(<< "d", "a", "t", "e" >>, << >>))) >>,
     << Dir(<< << "o" >> >>),
        File(<< << "o" >>, PARA_AREAS, Md(<< "a" >>) >>,
             Some(DatedText(<< "d", "a", "t", "e" >>, << "s", "o", "o", "n" >>))) >>,
     << Dir(<< << "e" >> >>) >> >>

\* The entries of the chosen items, in the order of TreeItems from item k on.
RECURSIVE Listing(_, _)
Listing(chosen, k) ==
  IF k > Len(TreeItems) THEN << >>
  ELSE (IF k \in chosen THEN TreeItems[k] ELSE << >>) \o Listing(chosen, k + 1)

\* The input directories with up to MaxDocs of the items.
TreeVaults ==
  { Listing(chosen, 1) :
      chosen \in { c \in SUBSET (1..Len(TreeItems)) : Cardinality(c) <= MaxDocs } }

InitTree ==
  /\ input_is_dir = TRUE
  /\ output_is_file = FALSE
  /\ vault \in TreeVaults
  /\ stage = "Discover"
  /\ result = None
  /\ document_infos = << >>
  /\ pending = {}
  /\ parse_results = << >>
  /\ processed = 0
  /\ documents = << >>
  /\ parse_errors = 0
  /\ lookup_map = << >>
  /\ resolve_results = << >>
  /\ broken_links_total = 0
  /\ link_stats = None
  /\ output_created = FALSE
  /\ watch = None

SpecTree == InitTree /\ [][Next]_vars

(* ------------------------------------------------------------------ *)
(* Builds over bodies longer than the context window                   *)
(* ------------------------------------------------------------------ *)

\* n bytes of plain text.
Pad(n) == [i \in 1..n |-> "x"]

\* A character of two bytes.
Wide == << LeadByte, ContByte >>

\* A body of plain text longer than the window on both sides of its link.
TextLong == Pad(ContextRadius + 1) \o LinkTo(<< "a" >>) \o Pad(ContextRadius + 1)

\* Bodies with a link to a.md and a two-byte character that lies across the
\* start of the context window, and across its end.
TextWideAcrossStart == Wide \o Pad(ContextRadius - 1) \o LinkTo(<< "a" >>)
TextWideAcrossEnd == LinkTo(<< "a" >>) \o Pad(ContextRadius - 1) \o Wide \o << "y" >>

\* Files with these bodies, with bodies whose two-byte character ends where the
\* window starts or begins where it ends, and with bodies of plain text.
WideFiles ==
  { File(PathRootA, Some(TextPlain)), File(PathRootA, Some(TextWideAcrossStart)),
    File(PathRootA, Some(TextLong)),
    File(PathProjectsB, Some(Wide \o Pad(ContextRadius) \o LinkTo(<< "a" >>))),
    File(PathProjectsB, Some(LinkTo(<< "a" >>) \o Pad(ContextRadius) \o Wide)),
    File(PathProjectsB, Some(TextWideAcrossStart)),
    File(PathProjectsB, Some(TextWideAcrossEnd)),
    File(PathProjectsB, Some(TextLong)),
    File(PathSubA, Some(TextWideAcrossEnd)), File(PathSubA, Some(TextLong)) }

WideVaults ==
  { v \in UNION { [1..n -> WideFiles] : n \in 0..MaxDocs } :
      \A i, j \in 1..Len(v) : i # j => v[i].relative_path # v[j].relative_path }

InitWide ==
  /\ input_is_dir = TRUE
  /\ output_is_file = FALSE
  /\ vault \in WideVaults
  /\ stage = "Discover"
  /\ result = None
  /\ document_infos = << >>
  /\ pending = {}
  /\ parse_results = << >>
  /\ processed = 0
  /\ documents = << >>
  /\ parse_errors = 0
  /\ lookup_map = << >>
  /\ resolve_results = << >>
  /\ broken_links_total = 0
  /\ link_stats = None
  /\ output_created = FALSE
  /\ watch = None

SpecWide == InitWide /\ [][Next]_vars

(* ------------------------------------------------------------------ *)
(* Watch mode: main.rs, run and watch_and_rebuild                      *)
(* ------------------------------------------------------------------ *)

\* The events sent over the channel and not yet received are at most this many.
MaxQueued == 2

\* The closure given to the watcher (main.rs 128-143): it sends on the channel
\* for a create, modify or remove event one of whose paths has the extension md.
Notified(event) ==
  /\ event.kind \in { "Create", "Modify", "Remove" }
  /\ \E n \in 1..Len(event.paths) : extension(event.paths[n]) = Some(<< "m", "d" >>)

Event(kind, path) == [kind |-> kind, paths |-> << path >>]

\* The two bodies of a.md and the body of projects/b.md in the watched directory.
WatchTexts == { << "x" >>, LinkTo(<< "b" >>) }

WatchVaults ==
  { << File(PathRootA, Some(t)) >> : t \in WatchTexts }
  \cup { << File(PathRootA, Some(t)), File(PathProjectsB, Some(LinkTo(<< "a" >>))) >> :
           t \in WatchTexts }

\* The events the file system can raise for the directory as it is: a.md is
\* rewritten or read, projects/b.md is created or removed, a file that is no
\* markdown file is rewritten.
EventsOn(entries) ==
  { Event("Modify", PathRootA), Event("Access", PathRootA),
    Event("Modify", << << "n", ".", "t", "x", "t" >> >>) }
  \cup (IF Len(entries) = 1 THEN { Event("Create", PathProjectsB) }
        ELSE { Event("Remove", PathProjectsB) })

\* The markdown files of the directory after the event.
After(entries, event) ==
  IF event = Event("Modify", PathRootA)
  THEN [entries EXCEPT ![1] =
          File(PathRootA, Some(CHOOSE t \in WatchTexts : Some(t) # entries[1].content))]
  ELSE IF event = Event("Create", PathProjectsB)
  THEN Append(entries, File(PathProjectsB, Some(LinkTo(<< "a" >>))))
  ELSE IF event = Event("Remove", PathProjectsB)
  THEN SubSeq(entries, 1, 1)
  ELSE entries

\* The state in which generate_site begins.
BuildBegins ==
  /\ stage' = "Discover"
  /\ result' = None
  /\ document_infos' = << >>
  /\ pending' = {}
  /\ parse_results' = << >>
  /\ processed' = 0
  /\ documents' = << >>
  /\ parse_errors' = 0
  /\ lookup_map' = << >>
  /\ resolve_results' = << >>
  /\ broken_links_total' = 0
  /\ link_stats' = None
  /\ output_created' = FALSE

BuildState ==
  << stage, result, document_infos, pending, parse_results, processed, documents,
     parse_errors, lookup_map, resolve_results, broken_links_total, link_stats,
     output_created >>

\* run (main.rs 83-90) with --watch: the first build, made by the actions of
\* generate_site, has returned Ok; the watcher is created and last_rebuild is set
\* to the present time (main.rs 124-156).
StartWatching ==
  /\ watch # None
  /\ watch.pc = "run"
  /\ stage = "Done"
  /\ watch' = [watch EXCEPT !.pc = "recv", !.within_debounce = TRUE]
  /\ UNCHANGED << vault, input_is_dir, output_is_file, BuildState >>

\* The file system changes under the watched directory and the watcher calls
\* the closure with the event; dirty records that a markdown file was created,
\* modified or removed since the last rebuild began.
FileEvent ==
  /\ watch # None
  /\ watch.pc \in { "recv", "build" }
  /\ watch.channel < MaxQueued
  /\ \E event \in EventsOn(vault) :
       /\ vault' = After(vault, event)
       /\ watch' = IF Notified(event)
                   THEN [watch EXCEPT !.channel = @ + 1, !.dirty = TRUE]
                   ELSE watch
  /\ UNCHANGED << input_is_dir, output_is_file, BuildState >>

\* debounce_duration (main.rs 156) has passed since last_rebuild.
DebounceElapses ==
  /\ watch # None
  /\ watch.pc \in { "recv", "build" }
  /\ watch.within_debounce
  /\ watch' = [watch EXCEPT !.within_debounce = FALSE]
  /\ UNCHANGED << vault, input_is_dir, output_is_file, BuildState >>

\* rx.recv_timeout returns Ok (main.rs 160-169): within the debounce duration
\* of last_rebuild the loop continues, otherwise last_rebuild is set to the
\* present time and generate_site is called. A timeout changes nothing.
WatchRecv ==
  /\ watch # None
  /\ watch.pc = "recv"
  /\ watch.channel > 0
  /\ IF watch.within_debounce
     THEN /\ watch' = [watch EXCEPT !.channel = @ - 1]
          /\ UNCHANGED BuildState
     ELSE /\ watch' = [watch EXCEPT !.channel = @ - 1, !.within_debounce = TRUE,
                                    !.dirty = FALSE, !.pc = "build"]
          /\ BuildBegins
  /\ UNCHANGED << vault, input_is_dir, output_is_file >>

\* generate_site has returned to the loop, which prints the outcome and waits
\* again (main.rs 169-173); a panic of the build ends the process.
WatchBuildReturns ==
  /\ watch # None
  /\ watch.pc = "build"
  /\ stage \in { "Done", "Failed" }
  /\ watch' = [watch EXCEPT !.pc = IF result[1] = "Panic" THEN "aborted" ELSE "recv"]
  /\ UNCHANGED << vault, input_is_dir, output_is_file, BuildState >>

InitWatch ==
  /\ input_is_dir = TRUE
  /\ output_is_file = FALSE
  /\ vault \in WatchVaults
  /\ stage = "Discover"
  /\ result = None
  /\ document_infos = << >>
  /\ pending = {}
  /\ parse_results = << >>
  /\ processed = 0
  /\ documents = << >>
  /\ parse_errors = 0
  /\ lookup_map = << >>
  /\ resolve_results = << >>
  /\ broken_links_total = 0
  /\ link_stats = None
  /\ output_created = FALSE
  /\ watch = [pc |-> "run", channel |-> 0, within_debounce |-> FALSE, dirty |-> FALSE]

NextWatch ==
  \/ Next
  \/ StartWatching
  \/ FileEvent
  \/ DebounceElapses
  \/ WatchRecv
  \/ WatchBuildReturns

SpecWatch == InitWatch /\ [][NextWatch]_vars

\* A build is between its call and its return.
Running ==
  stage \in { "Discover", "ParseAll", "BuildLookup", "ResolveLinksAll", "IndexBacklinks" }

\* Weak fairness of the steps of generate_site: a step of Next is enabled exactly
\* in the stages of Running, and the steps taken there that change the state of
\* the build are the steps of Next.
BuildFairness ==
  \/ []<>(~Running)
  \/ []<><< Running /\ BuildState' # BuildState >>_vars

\* The main thread goes round its loop, the workers of a build take their items
\* and time passes; nothing obliges the files to change.
SpecWatchFair ==
  /\ SpecWatch
  /\ BuildFairness
  /\ WF_vars(StartWatching)
  /\ WF_vars(DebounceElapses)
  /\ WF_vars(WatchRecv)
  /\ WF_vars(WatchBuildReturns)

(* ------------------------------------------------------------------ *)
(* Properties                                                          *)
(* ------------------------------------------------------------------ *)

\* The number of elements of a sequence that satisfy Test.
Count(seq, Test(_)) == Len(SelectSeq(seq, Test))

\* The set of the elements of a sequence.
Range(seq) == { seq[i] : i \in 1..Len(seq) }

\* The documents whose links have been resolved: the results collected so far
\* while the second map runs, every document afterwards.
ResolvedDocs ==
  IF stage = "ResolveLinksAll"
  THEN { Unwrap(resolve_results[i]) : i \in (1..Len(resolve_results)) \ pending }
  ELSE IF stage \in {"IndexBacklinks", "Done"} THEN Range(documents)
  ELSE {}

\* The lookup table has been built (and, on a panic of the second map, is still
\* the one that was built).
LookupBuilt ==
  \/ stage \in {"ResolveLinksAll", "IndexBacklinks", "Done"}
  \/ stage = "Failed" /\ result[1] = "Panic"

\* C1: once the backlinks are indexed and applied, the backlink list of every
\* document T holds, for every document S, as many entries carrying S's relative
\* path and title as S has non-broken links whose resolved path is T's output
\* path, and no other entry; broken links add none, an untargeted document has
\* an empty list.
C1_BacklinksMirrorLinks ==
  stage = "Done" =>
    \A t \in 1..Len(documents) :
      /\ \A s \in 1..Len(documents) :
           Count(documents[t].backlinks,
                 LAMBDA e : e.source_path = documents[s].relative_path
                            /\ e.source_title = title(documents[s]))
           = Count(documents[s].wiki_links,
                   LAMBDA l : ~l.is_broken
                              /\ l.resolved_path = Some(documents[t].output_path))
      /\ \A e \in Range(documents[t].backlinks) :
           \E s \in 1..Len(documents) : e.source_path = documents[s].relative_path

\* C1's case: A holds two links that resolve to B and a broken link; B has two
\* backlinks, both naming A, and A, which nothing links to, has none.
C1_Witness ==
  /\ stage = "Done"
  /\ \E a, b \in 1..Len(documents) :
       /\ a # b
       /\ Len(documents[b].backlinks) = 2
       /\ \A e \in Range(documents[b].backlinks) :
            e.source_path = documents[a].relative_path /\ e.source_title = title(documents[a])
       /\ documents[a].backlinks = << >>
       /\ \E l \in Range(documents[a].wiki_links) : l.is_broken

\* The normalized keys one document is known by: its title, the stem of its
\* output path and its output path without extension (the last two when they
\* are valid UTF-8).
KeysOf(doc) ==
  { normalize_for_lookup(title(doc)) }
  \cup { normalize_for_lookup(Unwrap(file_stem(doc.output_path))) }
  \cup (IF IsSome(to_str(set_extension(doc.output_path, << >>)))
        THEN { normalize_for_lookup(Unwrap(to_str(set_extension(doc.output_path, << >>)))) }
        ELSE {})

\* C2: a link is flagged broken, with no resolved path, exactly when its
\* normalized target is none of the normalized titles, stems and extension-less
\* paths of the documents; any other link carries the output path of a document.
C2_BrokenIffNoKey ==
  LET keys == UNION { KeysOf(x) : x \in Range(documents) }
      paths == { x.output_path : x \in Range(documents) }
  IN \A d \in ResolvedDocs : \A l \in Range(d.wiki_links) :
       /\ l.is_broken <=> normalize_for_lookup(l.wiki_link.target) \notin keys
       /\ l.is_broken => l.resolved_path = None
       /\ ~l.is_broken => \E x \in paths : l.resolved_path = Some(x)

\* C2's case: one document holds a link that resolved through a key that differs
\* from the link's raw target, and a broken link.
C2_Witness ==
  \E d \in ResolvedDocs :
    /\ \E l \in Range(d.wiki_links) :
         ~l.is_broken /\ normalize_for_lookup(l.wiki_link.target) # l.wiki_link.target
    /\ \E l \in Range(d.wiki_links) : l.is_broken

\* The insertions build_document_lookup makes for the pairs, in order: for each
\* document its title key, then its stem key, then its path key.
InsertionsOf(pair) ==
  << [key |-> normalize_for_lookup(pair[2]), path |-> pair[1], kind |-> "title"] >>
  \o (IF IsSome(file_stem(pair[1])) /\ IsUtf8(Unwrap(file_stem(pair[1])))
      THEN << [key |-> normalize_for_lookup(Unwrap(file_stem(pair[1]))), path |-> pair[1],
               kind |-> "stem"] >>
      ELSE << >>)
  \o (IF IsSome(to_str(set_extension(pair[1], << >>)))
      THEN << [key |-> normalize_for_lookup(Unwrap(to_str(set_extension(pair[1], << >>)))),
               path |-> pair[1], kind |-> "path"] >>
      ELSE << >>)

RECURSIVE Insertions(_)
Insertions(pairs) ==
  IF pairs = << >> THEN << >> ELSE InsertionsOf(Head(pairs)) \o Insertions(Tail(pairs))

\* The insertions made while the lookup table of the build was filled.
BuildInsertions == Insertions(LookupPairs(documents))

\* The path of the first insertion of key k, and of the last title insertion.
FirstInserted(ins, k) ==
  ins[CHOOSE i \in 1..Len(ins) : ins[i].key = k /\ \A j \in 1..(i - 1) : ins[j].key # k].path

IsTitleKey(ins, k) == \E i \in 1..Len(ins) : ins[i].key = k /\ ins[i].kind = "title"

LastTitleInserted(ins, k) ==
  ins[CHOOSE i \in 1..Len(ins) :
        /\ ins[i].key = k /\ ins[i].kind = "title"
        /\ \A j \in (i + 1)..Len(ins) : ~(ins[j].key = k /\ ins[j].kind = "title")].path

\* C3 as stated: every key of the lookup table keeps the output path of the first
\* insertion that produced it.
C3_FirstInsertedWins ==
  LookupBuilt =>
    LET ins == BuildInsertions
    IN \A k \in DOMAIN lookup_map : lookup_map[k] = FirstInserted(ins, k)

\* C3, amended: the keys of the table are the inserted keys; a stem or path
\* insertion never overwrites, so a key that is no document's title keeps its
\* first insertion; a title insertion always overwrites, so a key that is some
\* document's normalized title maps to the last document with that title.
C3_TitleOverwritesElseFirstWins ==
  LookupBuilt =>
    LET ins == BuildInsertions
    IN /\ DOMAIN lookup_map = { ins[i].key : i \in 1..Len(ins) }
       /\ \A k \in DOMAIN lookup_map :
            lookup_map[k] = IF IsTitleKey(ins, k)
                            THEN LastTitleInserted(ins, k)
                            ELSE FirstInserted(ins, k)

\* C3's case: a later title insertion has taken a key from its first insertion,
\* and a later stem or path insertion has left another key with its first one.
C3_Witness ==
  /\ LookupBuilt
  /\ LET ins == BuildInsertions
     IN /\ \E k \in DOMAIN lookup_map : lookup_map[k] # FirstInserted(ins, k)
        /\ \E k \in DOMAIN lookup_map :
             /\ ~IsTitleKey(ins, k)
             /\ \E i, j \in 1..Len(ins) :
                  /\ i < j
                  /\ ins[i].key = k /\ ins[j].key = k
                  /\ ins[i].path # ins[j].path
                  /\ lookup_map[k] = ins[i].path

\* C4: a key that is the normalized title of some document maps to a document
\* that has it as its normalized title, also when it is the stem or the path of
\* another document, wherever the two stand in the list.
C4_TitleTakesPrecedence ==
  LookupBuilt =>
    \A k \in DOMAIN lookup_map :
      (\E d \in Range(documents) : normalize_for_lookup(title(d)) = k)
      => \E d \in Range(documents) :
           normalize_for_lookup(title(d)) = k /\ lookup_map[k] = d.output_path

\* C4's case: document B stands before document A in the list, B's stem is A's
\* normalized title and not B's own, and the key maps to A.
C4_Witness ==
  /\ LookupBuilt
  /\ \E a, b \in 1..Len(documents) :
       /\ b < a
       /\ normalize_for_lookup(title(documents[a]))
            = normalize_for_lookup(Unwrap(file_stem(documents[b].output_path)))
       /\ normalize_for_lookup(title(documents[b])) # normalize_for_lookup(title(documents[a]))
       /\ lookup_map[normalize_for_lookup(title(documents[a]))] = documents[a].output_path

\* The text an HTML reader takes from escaped text: the five entities html_escape
\* writes are read back as their characters.
Entities ==
  << << << "&", "a", "m", "p", ";" >>, "&" >>,
     << << "&", "l", "t", ";" >>, "<" >>,
     << << "&", "g", "t", ";" >>, ">" >>,
     << << "&", "q", "u", "o", "t", ";" >>, "\"" >>,
     << << "&", "#", "3", "9", ";" >>, "'" >> >>

RECURSIVE html_unescape(_)
html_unescape(s) ==
  IF s = << >> THEN << >>
  ELSE IF \E e \in Range(Entities) : starts_with(s, e[1])
       THEN LET e == CHOOSE x \in Range(Entities) : starts_with(s, x[1])
            IN << e[2] >> \o html_unescape(SubSeq(s, Len(e[1]) + 1, Len(s)))
       ELSE << Head(s) >> \o html_unescape(Tail(s))

\* The value of the attribute that opens right after the prefix open of the
\* element text: the text up to the next double quote.
AttributeAfter(open, text) ==
  LET rest == SubSeq(text, Len(open) + 1, Len(text))
  IN SubSeq(rest, 1, Unwrap(find(rest, << "\"" >>)))

\* Joining a relative reference to a directory: each ".." cancels the component
\* before it, an empty segment adds nothing.
RECURSIVE JoinCancel(_, _)
JoinCancel(dir, segments) ==
  IF segments = << >> THEN dir
  ELSE IF Head(segments) = << >> THEN JoinCancel(dir, Tail(segments))
  ELSE IF Head(segments) = DotDot
       THEN JoinCancel(IF dir = << >> THEN dir ELSE SubSeq(dir, 1, Len(dir) - 1), Tail(segments))
  ELSE JoinCancel(Append(dir, Head(segments)), Tail(segments))

ResolveHref(dir, href) == JoinCancel(dir, split(href, "/"))

\* The directory of a document's output path.
OutputDir(doc) == parent(doc.output_path)

\* C5 as stated: for every resolved link of a rewritten document, the href of
\* the anchor that replaces it, joined to the directory of the document's output
\* path with the ".." segments cancelled, is the target's recorded output path.
C5_HrefLeadsToTarget ==
  \A d \in ResolvedDocs : \A l \in Range(d.wiki_links) :
    ~l.is_broken =>
      LET replacement == Replacement(l, d.output_path)
      IN /\ IsOk(replacement)
         /\ starts_with(replacement[2], AnchorOpen)
         /\ ResolveHref(OutputDir(d), html_unescape(AttributeAfter(AnchorOpen, replacement[2])))
              = Unwrap(l.resolved_path)

\* The case C5 fails on: a rewritten document holds a resolved link whose target
\* path has a backslash in a component.
C5_BackslashTarget ==
  \E d \in ResolvedDocs : \E l \in Range(d.wiki_links) :
    /\ ~l.is_broken
    /\ \E i \in 1..Len(Unwrap(l.resolved_path)) : contains(Unwrap(l.resolved_path)[i], << "\\" >>)

\* C6: every broken link of a rewritten document is replaced by a span of class
\* "wiki-link broken" and not by an anchor; the span's title names the original
\* target of the link, not the normalized one, written as HTML text, and the span
\* stands in the rewritten content.
C6_BrokenLinkMarker ==
  \A d \in ResolvedDocs : \A l \in Range(d.wiki_links) :
    l.is_broken =>
      LET replacement == Replacement(l, d.output_path)
      IN /\ IsOk(replacement)
         /\ starts_with(replacement[2], BrokenOpen)
         /\ ~contains(replacement[2], << "<", "a", " " >>)
         /\ ~contains(replacement[2], AnchorClose)
         /\ html_unescape(AttributeAfter(BrokenOpen, replacement[2])) = l.wiki_link.target
         /\ contains(replacement[2], html_escape(l.wiki_link.target))
         /\ (html_escape(l.wiki_link.target) = l.wiki_link.target
               => contains(replacement[2], l.wiki_link.target))
         /\ contains(d.html_content[2], replacement[2])

\* C6's case: a rewritten document holds a broken link whose target differs from
\* its normalized form and holds a character HTML escapes.
C6_Witness ==
  \E d \in ResolvedDocs : \E l \in Range(d.wiki_links) :
    /\ l.is_broken
    /\ normalize_for_lookup(l.wiki_link.target) # l.wiki_link.target
    /\ html_escape(l.wiki_link.target) # l.wiki_link.target

\* C7: once the backlinks are applied, every backlink list is in ascending order
\* of source title.
C7_BacklinksSortedByTitle ==
  stage = "Done" =>
    \A d \in Range(documents) : \A i, j \in 1..Len(d.backlinks) :
      i < j => StrLeq(d.backlinks[i].source_title, d.backlinks[j].source_title)

\* The position in the document list of the source of a backlink.
SourceIndex(backlink) ==
  CHOOSE s \in 1..Len(documents) : documents[s].relative_path = backlink.source_path

\* C7's case: a list of two backlinks with different source titles in which the
\* source of the first stands after the source of the second in the document list.
C7_Witness ==
  /\ stage = "Done"
  /\ \E d \in Range(documents) :
       /\ Len(d.backlinks) >= 2
       /\ d.backlinks[1].source_title # d.backlinks[2].source_title
       /\ SourceIndex(d.backlinks[1]) > SourceIndex(d.backlinks[2])

\* What a build that handles the discovered documents one after the other, in
\* list order, ends with.
ParseOf(i) ==
  parse_document(document_infos[i].path, document_infos[i].relative_path,
                 document_infos[i].category, ContentOf(i), Mtime)

SequentialBuild ==
  LET docs == ParsedDocuments([i \in 1..Len(document_infos) |-> ParseOf(i)])
      table == build_document_lookup(LookupPairs(docs))
      linked == [i \in 1..Len(docs) |->
                   WithLinks(docs[i],
                             markdown_to_html_with_wiki_links(docs[i].raw_content,
                                                              docs[i].output_path, table)[2])]
  IN apply_backlinks_to_documents(linked, build_backlink_index(linked))

\* C8: whatever the order in which the items of the two parallel maps completed,
\* a finished build holds the documents, in the order, with the backlink lists
\* that handling the discovered list one document after the other gives; among
\* backlinks of equal source title the order is that of the sources in the list.
C8_BuildIsDeterministic ==
  (stage = "Done" /\ result = Ok("complete")) =>
    /\ documents = SequentialBuild
    /\ \A d \in Range(documents) : \A i, j \in 1..Len(d.backlinks) :
         (i < j /\ d.backlinks[i].source_title = d.backlinks[j].source_title)
         => SourceIndex(d.backlinks[i]) <= SourceIndex(d.backlinks[j])

\* C8's case: a finished build of two documents, one of which has backlinks of
\* equal source title from two different sources.
C8_Witness ==
  /\ stage = "Done"
  /\ Len(documents) >= 2
  /\ \E d \in Range(documents) : \E i, j \in 1..Len(d.backlinks) :
       /\ i < j
       /\ d.backlinks[i].source_title = d.backlinks[j].source_title
       /\ d.backlinks[i].source_path # d.backlinks[j].source_path

\* The first parallel map and the loop over its results have ended.
ParseAllEnded ==
  \/ stage \in {"BuildLookup", "ResolveLinksAll", "IndexBacklinks", "Done"} /\ document_infos # << >>
  \/ stage = "Failed" /\ result[1] = "Panic"

\* The positions in the discovered list of the documents that parse.
Survivors ==
  SelectSeq([i \in 1..Len(document_infos) |-> i], LAMBDA i : IsOk(ParseOf(i)))

\* C9: once ParseAll has ended, the documents carried forward are the discovered
\* documents that parse, each once and in list order, parse_errors is the number
\* of those that do not, a build that counted parse errors has not failed
\* (barring the panic of the link rewriting), and a finished build returned Ok.
C9_ParseFailuresAreSkipped ==
  /\ ParseAllEnded =>
       /\ [k \in 1..Len(documents) |-> documents[k].relative_path]
            = [k \in 1..Len(Survivors) |-> document_infos[Survivors[k]].relative_path]
       /\ parse_errors = Len(document_infos) - Len(Survivors)
  /\ (stage = "Failed" /\ parse_errors > 0) => result[1] = "Panic"
  /\ stage = "Done" => IsOk(result)

\* C9's case: a build in which a document failed to parse and another one did
\* not has finished and returned Ok.
C9_Witness ==
  /\ stage = "Done"
  /\ IsOk(result)
  /\ parse_errors >= 1
  /\ Len(documents) >= 1

\* Every discovered document fails to parse.
AllFailed ==
  /\ document_infos # << >>
  /\ \A i \in 1..Len(document_infos) : ~IsOk(ParseOf(i))

\* C10 as stated: when every discovered document fails to parse, the build does
\* not go past ParseAll other than into failure.
C10_AllFailedEndsInFailure ==
  AllFailed => stage \in {"ParseAll", "Failed"}

\* C10, amended: when every discovered document fails to parse, ParseAll still
\* ends normally; the build goes on through the later stages with no document and
\* parse_errors equal to the number of discovered documents, never fails, and
\* returns Ok when it finishes.
C10_AllFailedStillSucceeds ==
  (AllFailed /\ stage \notin {"ParseAll"} /\ ~(stage = "Failed" /\ result[1] = "Err")) =>
    /\ stage \in {"BuildLookup", "ResolveLinksAll", "IndexBacklinks", "Done"}
    /\ documents = << >>
    /\ parse_errors = Len(document_infos)
    /\ stage = "Done" => result = Ok("complete")

\* C10's case: two documents were discovered, both failed to parse, and the build
\* has finished with Ok.
C10_Witness ==
  /\ AllFailed
  /\ Len(document_infos) >= 2
  /\ stage = "Done"
  /\ result = Ok("complete")

\* The place of a stage in the order of the build.
StageRank(s) ==
  CASE s = "Discover" -> 1
    [] s = "ParseAll" -> 2
    [] s = "BuildLookup" -> 3
    [] s = "ResolveLinksAll" -> 4
    [] s = "IndexBacklinks" -> 5
    [] s = "Done" -> 6
    [] s = "Failed" -> 7

\* C11: in a build that discovered a document, every change of stage that is not
\* the failure of the build goes to the next stage of the order Discover,
\* ParseAll, BuildLookup, ResolveLinksAll, IndexBacklinks, Done: none is skipped
\* and none is entered again, so a build that stands in a stage has been through
\* every stage before it, once.
C11_StagesInOrder ==
  [][(stage' # stage /\ stage' # "Failed" /\ document_infos' # << >>)
       => StageRank(stage') = StageRank(stage) + 1]_vars

\* C11's case: a build that discovered two documents has gone through the stages
\* and finished.
C11_Witness ==
  /\ stage = "Done"
  /\ Len(document_infos) >= 2
  /\ result = Ok("complete")
  /\ Len(documents) >= 1

\* The table built from every discovered document that parses.
CompleteTable ==
  LET docs == ParsedDocuments([i \in 1..Len(document_infos) |-> ParseOf(i)])
  IN build_document_lookup([i \in 1..Len(docs) |-> << docs[i].output_path, title(docs[i]) >>])

\* C12: no link of any document is resolved before the second map runs; while it
\* runs and afterwards every discovered document has been parsed, the lookup
\* table is the one built from all the documents that parsed, every resolved
\* document has its links resolved against that table, and no step of the second
\* map changes the table.
C12_ResolveAfterCompleteTable ==
  /\ [](/\ StageRank(stage) < 4 => \A i \in 1..Len(resolve_results) : resolve_results[i] = None
        /\ (stage = "ResolveLinksAll" \/ ResolvedDocs # {}) =>
             /\ \A i \in 1..Len(parse_results) : parse_results[i] # None
             /\ Len(parse_results) = Len(document_infos)
             /\ lookup_map = CompleteTable
             /\ \A d \in ResolvedDocs :
                  d.wiki_links = resolve_wiki_links(parse_wiki_links(d.raw_content), CompleteTable))
  /\ [][stage = "ResolveLinksAll" => lookup_map' = lookup_map]_vars

\* C12's case: the second map runs, the second document of the list has been
\* resolved before the first, and one of its links leads to another document.
C12_Witness ==
  /\ stage = "ResolveLinksAll"
  /\ Len(documents) >= 2
  /\ 1 \in pending
  /\ 2 \notin pending
  /\ \E l \in Range(Unwrap(resolve_results[2]).wiki_links) :
       ~l.is_broken /\ l.resolved_path # Some(documents[2].output_path)

\* The rewriting of the links of document i against the lookup table fails.
RewritingFails(i) ==
  ~IsOk(markdown_to_html_with_wiki_links(documents[i].raw_content, documents[i].output_path,
                                         lookup_map))

\* C13 as stated: a build stands in Failed only when the input root is no
\* directory or the output path is an existing file.
C13_FailedOnlyFromFatalConditions ==
  stage = "Failed" => (~input_is_dir \/ output_is_file)

\* The case C13 fails on: the build has failed after ParseAll, with a valid
\* input root and a free output path.
C13_FailedAfterParseAll ==
  /\ stage = "Failed"
  /\ input_is_dir /\ ~output_is_file
  /\ parse_results # << >>

\* C14 as stated: when the rewriting of the links of some document fails on the
\* relative path, the build does not abort: it stands in ResolveLinksAll or has
\* gone on to IndexBacklinks and the end.
C14_PathFailureIsConfined ==
  (LookupBuilt /\ \E i \in 1..Len(documents) : RewritingFails(i))
    => stage \in {"ResolveLinksAll", "IndexBacklinks", "Done"}

\* The case C14 fails on: the second map runs over two documents, the rewriting
\* of one fails on the relative path and that of the other does not.
C14_RewritingFailsForOne ==
  /\ stage = "ResolveLinksAll"
  /\ \E i, j \in 1..Len(documents) : RewritingFails(i) /\ ~RewritingFails(j)

\* The text of discovered document i, and its lines: the runs between line
\* feeds, without the carriage return of a CRLF ending.
TextOf(i) == Unwrap(ContentOf(i))

TextLines(text) ==
  LET raw == split(text, "\n")
  IN [n \in 1..Len(raw) |->
        IF raw[n] # << >> /\ raw[n][Len(raw[n])] = "\r"
        THEN SubSeq(raw[n], 1, Len(raw[n]) - 1)
        ELSE raw[n]]

\* The text begins with the delimiter on a line of its own.
OpensFrontmatter(text) ==
  starts_with(text, Dashes \o LF) \/ starts_with(text, Dashes \o CRLF)

\* Some line after the first is the delimiter alone.
HasLaterDelimiterLine(text) ==
  \E n \in 2..Len(TextLines(text)) : TextLines(text)[n] = Dashes

NoClosingDelimiter == Err("Frontmatter starting delimiter found but no closing delimiter")

\* C15 as stated: the parse of a document ends with the 'no closing delimiter'
\* error exactly when its text begins with the delimiter line and no later line
\* is the delimiter alone.
C15_NoClosingDelimiterIffNoLine ==
  \A i \in 1..Len(parse_results) :
    parse_results[i] # None =>
      (parse_results[i] = NoClosingDelimiter
         <=> (OpensFrontmatter(TextOf(i)) /\ ~HasLaterDelimiterLine(TextOf(i))))

\* The case C15 fails on: the parse ended with the 'no closing delimiter' error
\* on a text that begins with the delimiter line and has a later line that is the
\* delimiter alone.
C15_ClosedButRejected ==
  \E i \in 1..Len(parse_results) :
    /\ parse_results[i] = NoClosingDelimiter
    /\ OpensFrontmatter(TextOf(i))
    /\ HasLaterDelimiterLine(TextOf(i))

\* C16: for a text that does not begin with the delimiter line, parse_frontmatter
\* gives default metadata and the text itself as body, and the parsed document
\* carries that body unchanged.
C16_NoFrontmatterIsUntouched ==
  \A i \in 1..Len(parse_results) :
    (parse_results[i] # None /\ ~OpensFrontmatter(TextOf(i))) =>
      /\ parse_frontmatter(TextOf(i))
           = Ok(<< [title |-> None, date |-> None, modified |-> None, created |-> None],
                   TextOf(i) >>)
      /\ IsOk(parse_results[i])
      /\ parse_results[i][2].raw_content = TextOf(i)
      /\ parse_results[i][2].metadata.title = None

\* C16's case: a parsed text that begins with three dashes that are not a line
\* of their own, and goes on after them.
C16_Witness ==
  \E i \in 1..Len(parse_results) :
    /\ parse_results[i] # None
    /\ starts_with(TextOf(i), Dashes)
    /\ ~OpensFrontmatter(TextOf(i))
    /\ Len(TextOf(i)) > 4
    /\ contains(TextOf(i), LF)

\* A key in normal form: lower case, no hyphen, underscore or tab, single spaces
\* between words and none at either end.
IsNormalForm(k) ==
  /\ \A n \in 1..Len(k) : k[n] \notin {"-", "_", "\t", "\n", "\r"} /\ ToLowerChar(k[n]) = k[n]
  /\ ~contains(k, << " ", " " >>)
  /\ k # << >> => (k[1] # " " /\ k[Len(k)] # " ")

\* C17: normalizing the normalized form of a document's name gives it again, the
\* normalized form is in normal form, and every key of the lookup table is a
\* fixed point of the normalization.
C17_NormalizeIdempotent ==
  /\ \A i \in 1..Len(document_infos) :
       LET k == document_infos[i].stem
       IN /\ normalize_for_lookup(normalize_for_lookup(k)) = normalize_for_lookup(k)
          /\ IsNormalForm(normalize_for_lookup(k))
  /\ LookupBuilt =>
       \A k \in DOMAIN lookup_map : normalize_for_lookup(k) = k /\ IsNormalForm(k)

\* C17's case: the table holds the key of a name with an upper-case letter, a
\* hyphen and a space next to each other.
C17_Witness ==
  /\ LookupBuilt
  /\ \E i \in 1..Len(document_infos) :
       /\ contains(document_infos[i].stem, << "A" >>)
       /\ \/ contains(document_infos[i].stem, << "-", " " >>)
          \/ contains(document_infos[i].stem, << " ", "-" >>)
       /\ normalize_for_lookup(document_infos[i].stem) \in DOMAIN lookup_map

\* The sum of a sequence of numbers.
RECURSIVE Sum(_)
Sum(seq) == IF seq = << >> THEN 0 ELSE Head(seq) + Sum(Tail(seq))

\* C18: the statistics of a finished build report as broken_links the number of
\* links flagged broken over all documents, as valid_links the number of links
\* not flagged broken, and as total_links the number of links, which is their sum.
C18_LinkCounts ==
  (stage = "Done" /\ link_stats # None) =>
    LET stats == Unwrap(link_stats)
        flagged(doc) == Cardinality({ n \in 1..Len(doc.wiki_links) : doc.wiki_links[n].is_broken })
        unflagged(doc) == Cardinality({ n \in 1..Len(doc.wiki_links) : ~doc.wiki_links[n].is_broken })
        links(doc) == Len(doc.wiki_links)
    IN /\ stats.broken_links = Sum([n \in 1..Len(documents) |-> flagged(documents[n])])
       /\ stats.valid_links = Sum([n \in 1..Len(documents) |-> unflagged(documents[n])])
       /\ stats.total_links = Sum([n \in 1..Len(documents) |-> links(documents[n])])
       /\ stats.total_links = stats.valid_links + stats.broken_links
       /\ stats.total_documents = Len(documents)

\* C18's case: a finished build of two documents that hold broken links and
\* valid links.
C18_Witness ==
  /\ stage = "Done"
  /\ link_stats # None
  /\ Len(documents) >= 2
  /\ Unwrap(link_stats).broken_links >= 2
  /\ Unwrap(link_stats).valid_links >= 2

\* The file names of the index pages.
IndexPageNames ==
  { << "i", "n", "d", "e", "x", ".", "m", "d" >>,
    << "_", "i", "n", "d", "e", "x", ".", "m", "d" >>,
    << "R", "E", "A", "D", "M", "E", ".", "m", "d" >> }

\* C19: the statistics of a finished build list as orphaned, in document order,
\* exactly the documents with an empty backlink list whose file name is none of
\* index.md, _index.md, README.md; documents_with_backlinks is the number of
\* documents with a non-empty list; no listed document has backlinks.
C19_OrphansAndBacklinked ==
  (stage = "Done" /\ link_stats # None) =>
    LET stats == Unwrap(link_stats)
        orphans == SelectSeq(documents,
                             LAMBDA d : /\ d.backlinks = << >>
                                        /\ d.relative_path[Len(d.relative_path)] \notin IndexPageNames)
    IN /\ stats.orphaned_documents = [n \in 1..Len(orphans) |-> orphans[n].relative_path]
       /\ stats.documents_with_backlinks
            = Cardinality({ n \in 1..Len(documents) : documents[n].backlinks # << >> })
       /\ \A d \in Range(documents) :
            d.backlinks # << >> => d.relative_path \notin Range(stats.orphaned_documents)

\* C19's case: a finished build with an index page without backlinks that is not
\* listed, and an orphaned page whose name differs from an index page's in case.
C19_Witness ==
  /\ stage = "Done"
  /\ link_stats # None
  /\ \E d \in Range(documents) :
       /\ d.backlinks = << >>
       /\ d.relative_path[Len(d.relative_path)] \in IndexPageNames
       /\ d.relative_path[Len(d.relative_path)] # << "i", "n", "d", "e", "x", ".", "m", "d" >>
       /\ d.relative_path \notin Range(Unwrap(link_stats).orphaned_documents)
  /\ \E d \in Range(documents) :
       /\ d.relative_path = << << "I", "n", "d", "e", "x", ".", "m", "d" >> >>
       /\ d.relative_path \in Range(Unwrap(link_stats).orphaned_documents)

\* C20: a build over a valid input directory without an eligible document
\* leaves the stage Discover only for Done, with a successful return, without
\* creating the output directory, and without parsing, indexing or resolving
\* anything.
C20_EmptyInputSucceedsUntouched ==
  (input_is_dir /\ traverse_directory(vault) = Ok(<< >>)) =>
    /\ stage \in { "Discover", "Done" }
    /\ stage = "Done" => (result # None /\ IsOk(result))
    /\ ~output_created
    /\ parse_results = << >>
    /\ documents = << >>
    /\ lookup_map = << >>
    /\ resolve_results = << >>
    /\ link_stats = None

\* C20's case: the build of an empty input directory has returned.
C20_Witness ==
  /\ input_is_dir
  /\ traverse_directory(vault) = Ok(<< >>)
  /\ stage = "Done"
  /\ result = Ok("empty")
  /\ ~output_created

\* C21: with at least one document in the input and a regular file at the
\* output path, the build leaves the stage Discover only for Failed, with the
\* InvalidPath error 'exists and is a file'; no document is parsed, and the
\* file at the output path is still there and no directory was created over it.
C21_OutputFileFailsBeforeParsing ==
  (input_is_dir /\ IsOk(traverse_directory(vault)) /\ traverse_directory(vault) # Ok(<< >>)
   /\ output_is_file) =>
    /\ stage \in { "Discover", "Failed" }
    /\ stage = "Failed" => result = Err("InvalidPath: exists and is a file")
    /\ ~output_created
    /\ parse_results = << >>
    /\ processed = 0
    /\ documents = << >>

\* C21's case: the build of a non-empty input has failed on the output path.
C21_Witness ==
  /\ input_is_dir
  /\ output_is_file
  /\ Len(document_infos) >= 1
  /\ stage = "Failed"
  /\ result = Err("InvalidPath: exists and is a file")

\* Whether a file name ends in the extension md after a non-empty stem.
HasMarkdownExtension(name) ==
  Len(name) > 3 /\ SubSeq(name, Len(name) - 2, Len(name)) = << ".", "m", "d" >>

\* The positions in the vault of the regular files with the markdown extension
\* that have no name beginning with '.' on their path, their own name included.
VisibleMarkdownFiles ==
  { k \in 1..Len(vault) :
      /\ vault[k].kind = "file"
      /\ HasMarkdownExtension(vault[k].relative_path[Len(vault[k].relative_path)])
      /\ \A n \in 1..Len(vault[k].relative_path) : vault[k].relative_path[n][1] # "." }

\* The positions in the vault of the regular files with the markdown extension
\* that are in no directory whose name begins with '.'.
MarkdownFilesOutsideHiddenDirs ==
  { k \in 1..Len(vault) :
      /\ vault[k].kind = "file"
      /\ HasMarkdownExtension(vault[k].relative_path[Len(vault[k].relative_path)])
      /\ \A n \in 1..(Len(vault[k].relative_path) - 1) : vault[k].relative_path[n][1] # "." }

\* The traversal has returned records, exactly one for each of the files.
RecordsAreExactly(files) ==
  /\ result # Err("InvalidPath: Invalid file name")
  /\ \A k \in files :
       Cardinality({ i \in 1..Len(document_infos) :
                       document_infos[i].relative_path = vault[k].relative_path }) = 1
  /\ \A i \in 1..Len(document_infos) :
       \E k \in files :
         /\ document_infos[i].relative_path = vault[k].relative_path
         /\ document_infos[i].path = InputRoot \o vault[k].relative_path

CategoryNames ==
  { << "p", "r", "o", "j", "e", "c", "t", "s" >>, << "a", "r", "e", "a", "s" >>,
    << "r", "e", "s", "o", "u", "r", "c", "e", "s" >>,
    << "a", "r", "c", "h", "i", "v", "e", "s" >> }
RootSentinel == << "r", "o", "o", "t" >>

\* C23: the category recorded for a document is the first component of its
\* relative path when that is exactly one of the four category names, and the
\* sentinel 'root' for every other path: a file in the root, a file under
\* another directory, also when a deeper directory has a category name or the
\* first component differs from one in case only.
C23_CategoryIsFirstComponentOrRoot ==
  \A i \in 1..Len(document_infos) :
    LET path == document_infos[i].relative_path
    IN /\ detect_para_category(path) = document_infos[i].category
       /\ IF path[1] \in CategoryNames
          THEN document_infos[i].category = path[1]
          ELSE document_infos[i].category = RootSentinel

\* C23's case: a document under a category directory and a document under
\* another directory that holds a directory with a category name.
C23_Witness ==
  /\ \E i \in 1..Len(document_infos) :
       /\ document_infos[i].relative_path[1] \in CategoryNames
       /\ document_infos[i].category # RootSentinel
  /\ \E i \in 1..Len(document_infos) :
       /\ Len(document_infos[i].relative_path) = 3
       /\ document_infos[i].relative_path[1] \notin CategoryNames
       /\ document_infos[i].relative_path[2] \in CategoryNames
       /\ document_infos[i].category = RootSentinel

\* The orders a list of n links can be given in.
Orders(n) == { p \in [1..n -> 1..n] : \A i, j \in 1..n : i # j => p[i] # p[j] }

\* The body with the span of each link, taken in ascending order from the byte
\* offset pos on, replaced by the link's own replacement.
RECURSIVE Spliced(_, _, _, _)
Spliced(body, links, pos, current_doc_path) ==
  IF links = << >> THEN SubSeq(body, pos + 1, Len(body))
  ELSE SubSeq(body, pos + 1, Head(links).wiki_link.start)
       \o Replacement(Head(links), current_doc_path)[2]
       \o Spliced(body, Tail(links), Head(links).wiki_link.end, current_doc_path)

\* The links parse_wiki_links found in the body of a document are in ascending
\* order, pairwise disjoint and inside the body, and each covers its markup.
SpansAreWellFormed(doc) ==
  LET links == doc.wiki_links
  IN /\ [n \in 1..Len(links) |-> links[n].wiki_link] = parse_wiki_links(doc.raw_content)
     /\ \A n \in 1..Len(links) :
          /\ 0 <= links[n].wiki_link.start
          /\ links[n].wiki_link.start < links[n].wiki_link.end
          /\ links[n].wiki_link.end <= Len(doc.raw_content)
          /\ SubSeq(doc.raw_content, links[n].wiki_link.start + 1, links[n].wiki_link.end)
               = links[n].wiki_link.full_match
          /\ n < Len(links) => links[n].wiki_link.end <= links[n + 1].wiki_link.start

\* C24: for every document whose links are resolved and all have a replacement,
\* the rewriting of its raw body, with the links given in any order, is the body
\* in which each span is replaced by its link's replacement and everything
\* outside the spans is kept in place; the text handed to the renderer is that
\* body.
C24_ReplacementKeepsTheRest ==
  \A doc \in ResolvedDocs :
    LET links == doc.wiki_links
        expected == Spliced(doc.raw_content, links, 0, doc.output_path)
    IN (\A n \in 1..Len(links) : IsOk(Replacement(links[n], doc.output_path))) =>
         /\ SpansAreWellFormed(doc)
         /\ doc.html_content = markdown_to_html(expected)
         /\ \A p \in Orders(Len(links)) :
              replace_wiki_links_with_html(doc.raw_content,
                                           [n \in 1..Len(links) |-> links[p[n]]],
                                           doc.output_path) = Ok(expected)

\* C24's case: a rewritten body with text before the first link, two adjacent
\* links, and text between and after the others.
C24_Witness ==
  \E doc \in ResolvedDocs :
    /\ Len(doc.wiki_links) = 3
    /\ doc.wiki_links[1].wiki_link.start > 0
    /\ doc.wiki_links[1].wiki_link.end = doc.wiki_links[2].wiki_link.start
    /\ doc.wiki_links[2].wiki_link.end < doc.wiki_links[3].wiki_link.start
    /\ doc.wiki_links[3].wiki_link.end < Len(doc.raw_content)
    /\ \E n \in 1..3 : ~doc.wiki_links[n].is_broken
    /\ \E n \in 1..3 : doc.wiki_links[n].is_broken

\* The number of items of the running parallel map.
StageItems == IF stage = "ParseAll" THEN Len(document_infos) ELSE Len(documents)

\* The broken links of the documents the second map has returned so far.
BrokenSoFar ==
  Sum([i \in 1..Len(resolve_results) |->
         IF resolve_results[i] = None THEN 0
         ELSE Cardinality({ n \in 1..Len(Unwrap(resolve_results[i]).wiki_links) :
                              Unwrap(resolve_results[i]).wiki_links[n].is_broken })])

\* C25: in every interleaving of the workers of a parallel map, the processed
\* counter is the number of items handled so far and ends the map at the number
\* of items; the broken-link total is the number of broken links of the
\* documents handled so far and, from the end of the second map on, of all
\* documents; no step lowers a counter; and the count a worker observes is one
\* more than every count observed before it in the same map and lies in 1..N, so
\* the counts observed are distinct and N is observed once.
C25_CountersLoseNoUpdate ==
  /\ [](stage \in {"ParseAll", "ResolveLinksAll"} =>
          processed = StageItems - Cardinality(pending))
  /\ [](stage \in {"ResolveLinksAll", "IndexBacklinks", "Done"} =>
          broken_links_total = BrokenSoFar)
  /\ [](stage \in {"IndexBacklinks", "Done"} =>
          /\ processed = Len(documents)
          /\ broken_links_total
               = Sum([i \in 1..Len(documents) |->
                        Cardinality({ n \in 1..Len(documents[i].wiki_links) :
                                        documents[i].wiki_links[n].is_broken })]))
  /\ [][/\ (stage' = stage /\ stage \in {"ParseAll", "ResolveLinksAll"}) =>
             /\ processed' = processed + 1
             /\ processed' \in 1..StageItems
             /\ broken_links_total' >= broken_links_total
        /\ (stage = "ParseAll" /\ stage' # stage) => processed = Len(document_infos)
        /\ (stage = "ResolveLinksAll" /\ stage' = "IndexBacklinks") =>
             processed = Len(documents)]_vars

\* C25's case: both maps have handled two documents, each of which holds a
\* broken link, so that two workers have added to the broken-link total.
C25_Witness ==
  /\ stage = "Done"
  /\ processed = 2
  /\ Len(documents) = 2
  /\ \A i \in 1..2 : \E n \in 1..Len(documents[i].wiki_links) : documents[i].wiki_links[n].is_broken
  /\ broken_links_total >= 2

\* The date fields of a metadata record.
Dates(metadata) ==
  [date |-> metadata.date, modified |-> metadata.modified, created |-> metadata.created]

\* What the frontmatter of discovered document i gives for the date fields.
GivenDates(i) == Dates(parse_frontmatter(TextOf(i))[2][1])

\* The date fields document k of the list must carry: those of its frontmatter
\* when it gives any of the three, otherwise the modification time of the file
\* as "modified" and nothing else.
ExpectedDates(k) ==
  LET given == GivenDates(Survivors[k])
  IN IF given.date = None /\ given.modified = None /\ given.created = None
     THEN [date |-> None, modified |-> Some(Mtime), created |-> None]
     ELSE given

WithoutLinks(doc) == [doc EXCEPT !.html_content = << >>, !.wiki_links = << >>]

\* C27: a document the second map returns differs from the document it was
\* given, which is the one ParseAll produced, in nothing but its rendered HTML
\* and its resolved links; so when the backlinks are indexed the literal text of
\* every link is found in the raw body of its source, and every backlink entry
\* of the finished build carries a context.
C27_ResolveKeepsRawContent ==
  /\ stage = "ResolveLinksAll" =>
       \A k \in 1..Len(resolve_results) :
         resolve_results[k] # None =>
           /\ WithoutLinks(Unwrap(resolve_results[k])) = WithoutLinks(documents[k])
           /\ documents[k] = ParseOf(Survivors[k])[2]
  /\ stage \in {"IndexBacklinks", "Done"} =>
       \A k \in 1..Len(documents) :
         /\ WithoutLinks([documents[k] EXCEPT !.backlinks = << >>])
              = WithoutLinks(ParseOf(Survivors[k])[2])
         /\ \A n \in 1..Len(documents[k].wiki_links) :
              IsSome(find(documents[k].raw_content,
                          documents[k].wiki_links[n].wiki_link.full_match))
  /\ stage = "Done" =>
       \A k \in 1..Len(documents) :
         \A n \in 1..Len(documents[k].backlinks) :
           IsSome(documents[k].backlinks[n].link_context)

\* C27's case: a finished build in which a document has a backlink from a
\* document with three links.
C27_Witness ==
  /\ stage = "Done"
  /\ \E k, s \in 1..Len(documents) :
       /\ k # s
       /\ Len(documents[s].wiki_links) = 3
       /\ \E n \in 1..Len(documents[k].backlinks) :
            /\ documents[k].backlinks[n].source_path = documents[s].relative_path
            /\ IsSome(documents[k].backlinks[n].link_context)

\* C28: whatever the raw bodies are, the indexing of the backlinks ends with the
\* backlinks applied: the stage IndexBacklinks is left for Done only.
C28_IndexBacklinksCompletes ==
  [][stage = "IndexBacklinks" => stage' = "Done"]_vars

\* C28's failing case: the build has ended in the panic of the slice, over a
\* body whose two-byte character lies across an end of the context window.
C28_WindowInsideCharacter ==
  /\ stage = "Failed"
  /\ result = SlicePanic
  /\ \E k \in 1..Len(documents) :
       \E n \in 1..Len(documents[k].wiki_links) :
         /\ ~documents[k].wiki_links[n].is_broken
         /\ documents[k].raw_content \in {TextWideAcrossStart, TextWideAcrossEnd}

\* The output paths of the documents of the set.
OutputPaths == { documents[k].output_path : k \in 1..Len(documents) }

\* The number of backlink entries over all documents.
TotalBacklinks == Sum([k \in 1..Len(documents) |-> Len(documents[k].backlinks)])

\* C29: once the lookup table is built, the output paths of the surviving
\* documents are pairwise distinct and every value of the table is one of them;
\* every link that is not broken carries the output path of exactly one document
\* of the final set; and in a finished build the backlink entries over all
\* documents are as many as the valid links of the statistics.
C29_EveryValidLinkHasOneTarget ==
  /\ stage \in { "ResolveLinksAll", "IndexBacklinks", "Done" } =>
       /\ \A j, k \in 1..Len(documents) :
            documents[j].output_path = documents[k].output_path => j = k
       /\ \A key \in DOMAIN lookup_map : lookup_map[key] \in OutputPaths
  /\ stage \in { "IndexBacklinks", "Done" } =>
       \A s \in 1..Len(documents) :
         \A n \in 1..Len(documents[s].wiki_links) :
           LET link == documents[s].wiki_links[n]
           IN  ~link.is_broken =>
                 /\ IsSome(link.resolved_path)
                 /\ Cardinality({ k \in 1..Len(documents) :
                                    documents[k].output_path = Unwrap(link.resolved_path) }) = 1
  /\ (stage = "Done" /\ link_stats # None) =>
       TotalBacklinks = Unwrap(link_stats).valid_links

\* C29's case: a finished build in which two documents hold backlink entries,
\* one of them more than one, and some link is broken.
C29_Witness ==
  /\ stage = "Done"
  /\ link_stats # None
  /\ Unwrap(link_stats).broken_links >= 1
  /\ Unwrap(link_stats).valid_links >= 3
  /\ \E j, k \in 1..Len(documents) :
       /\ j # k
       /\ Len(documents[j].backlinks) >= 2
       /\ Len(documents[k].backlinks) >= 1

\* C30: in watch mode every creation, modification or removal of a markdown file
\* under the input directory is eventually followed by a rebuild that begins
\* after it.
C30_EveryChangeIsRebuilt ==
  (watch # None /\ watch.dirty) ~> (watch # None /\ ~watch.dirty)

\* The markdown files of the input directory with their texts, and the documents
\* of the last build with theirs.
WatchedFiles == { << vault[k].relative_path, Unwrap(vault[k].content) >> : k \in 1..Len(vault) }
BuiltFiles == { << documents[k].relative_path, documents[k].raw_content >> : k \in 1..Len(documents) }

\* C30's case: a markdown file has changed since the last rebuild began, the
\* event was received and discarded by the debounce test, and the loop waits on
\* an empty channel with the debounce duration over, while the documents of the
\* last build are not the files of the directory.
C30_ChangeDroppedByDebounce ==
  /\ watch # None
  /\ watch.pc = "recv"
  /\ watch.dirty
  /\ watch.channel = 0
  /\ ~watch.within_debounce
  /\ stage = "Done"
  /\ BuiltFiles # WatchedFiles

====
